---- MODULE Spec2Model ----
(***************************************************************************)
(* wax::ring::lappable<data_point, n_elements>: a fixed-capacity ring      *)
(* buffer with one shared write position, a lap counter, a mutex, write    *)
(* cursors (ptr / ready / put) and read cursors (peek / get) that detect   *)
(* being lapped.  Every cursor is driven by its own thread; a call is      *)
(* split at the points where the code takes or drops the mutex, and where  *)
(* it touches the shared state without it.                                 *)
(***************************************************************************)
EXTENDS Integers, Sequences, FiniteSets, TLC

\* Template parameter n_elements: the capacity, a power of two.
n_elements == 4

\* wax::npos is the all-ones size_t; any value outside 0..n_elements-1 plays it.
npos == -1

\* Total number of writes a run may start; caps the lap counter.
MaxWrites == 10

\* Number of calls a single-threaded run records in hist.
MaxCalls == 15

\* Number of puts all write cursors together start in a run of SpecMW.
MaxPutsMW == 3

\* Number of writes a run of SpecOps may start.
MaxOpsWrites == 6

\* Number of puts a run of SpecSwap may start.
MaxSwapWrites == 6

\* Number of writes (write() or next()) made to the anon::basic object.
MaxAnonWrites == 7

\* Largest stride in bytes and largest row count of the anon::basic object.
MaxStride == 3
MaxRows == 4

\* Number of writes all write cursors together start in a run of SpecLive.
MaxLiveWrites == 2
MaxPairWrites == 5
MaxEqWrites == 9
MaxBaseWrites == 6
MaxPtrWrites == 6
MaxOrderWrites == 9
MaxDepth == 3
MaxPushes == 2
MaxSvcCalls == 4
MaxCtlCalls == 5
MaxSubdiv == 2

\* Width of std::size_t in bits.
SizeBits == 64

Writers == {"w1", "w2"}
Readers == {"r1", "r2"}
NoThread == "nobody"

Slots == 0 .. (n_elements - 1)

\* The n-th value handed to the buffer (n = 0, 1, ...): 10, 20, 30, ...
Payload(n) == 10 * (n + 1)

\* A slot is copied in two halves (memcpy is not atomic).
Whole(v) == [lo |-> v, hi |-> v]

VARIABLES
  ring,        \* basic::ring, slot -> [lo, hi]
  write_at,    \* basic::write_at
  has_data,    \* basic::has_data
  lap_,        \* lappable::lap_
  mux,         \* lappable::mux: the thread holding it, or NoThread
  wcur,        \* the write cursors constructed on the buffer
  rcur,        \* the read cursors constructed on the buffer
  wpc,         \* write cursor -> position in its current call
  was,         \* put(): the local `was`, the value put() returns
  p,           \* put()/ptr(): the slot address ptr() returned
  val,         \* the value the caller is writing
  issued,      \* number of writes started so far (numbers the payloads)
  rpc,         \* read cursor -> position in its current call
  read_at,     \* cursor::read::read_at
  lap,         \* cursor::read::lap
  errno_,      \* cursor::__basic::errno_ of the read cursor
  ref,         \* the pointer the last peek()/get() returned: <<>> or <<slot>>
  consumed,    \* history: number of successful get() calls of the cursor
  kept,        \* history: at every poll so far at most n_elements unconsumed
  hist,        \* history: the calls of a single-threaded run, in order
  seen_empty,  \* history: writes committed when the last poll said is_empty
  pre,         \* history: write_at and lap_ when the writer's call began
  fresh,       \* history: ptr() returns since the last next(): 0, 1, 2 = more
  ret,         \* what the thread's last swap/oldest/last/find call returned
  flocal,      \* find(): its arguments and the locals of the call in progress
  anon,        \* an anon::basic object: stride, n_rows, ring, write_at, has_data
  anon_ret,    \* what the last call on the anon::basic object returned
  anon_n,      \* history: number of writes made to the anon::basic object
  anon_lap,    \* anon::lappable::lap_ of the object
  anon_cur,    \* a read cursor on the object: read_at, lap, errno_, ref
  ix,          \* the operator[] call in progress or just over
  q,           \* msg_queue::q
  qmux,        \* msg_queue::mux: the thread holding it, or NoThread
  qpc,         \* where each thread using the queue is in its call
  qmsg,        \* the msg argument of each thread: pushed, or popped into
  qret,        \* what the consumer's last call returned
  pushes,      \* number of push() calls made
  enq,         \* history: the messages in the order they were enqueued
  dlv,         \* history: the messages in the order they were handed out
  loop,        \* a thread_loop: should_stop, th, subdiv, duty_cycle, delay
  ctl,         \* the owner of the thread_loop: its call, and calls so far
  svc_calls,   \* history: number of calls of the service function
  svc_stopped, \* history: the service function has returned r_stop
  wraps,       \* history: times write_at went back to 0, where it is counted
  got          \* history: read cursor -> what its last successful get() gave

bufvars == <<ring, write_at, has_data, lap_, mux>>
cfgvars == <<wcur, rcur>>
wvars == <<wpc, was, p, val, issued>>
rvars == <<rpc, read_at, lap, errno_, ref>>
obsvars == <<consumed, kept, hist, seen_empty, pre, fresh>>
opvars == <<ret, flocal>>
anonvars == <<anon, anon_ret, anon_n, anon_lap, anon_cur>>
mqvars == <<q, qmux, qpc, qmsg, qret, pushes, enq, dlv>>
tlvars == <<loop, ctl, svc_calls, svc_stopped>>
extvars == <<ix, mqvars, tlvars, wraps, got>>
vars == <<ring, write_at, has_data, lap_, mux, wcur, rcur,
          wpc, was, p, val, issued, rpc, read_at, lap, errno_, ref,
          consumed, kept, hist, seen_empty, pre, fresh,
          ret, flocal, anon, anon_ret, anon_n, anon_lap, anon_cur,
          ix, q, qmux, qpc, qmsg, qret, pushes, enq, dlv,
          loop, ctl, svc_calls, svc_stopped, wraps, got>>

-----------------------------------------------------------------------------
(* basic<data_point, n_elements> *)

RECURSIVE BitAnd(_, _)
BitAnd(a, b) ==
  IF a = 0 \/ b = 0 THEN 0
  ELSE (IF a % 2 = 1 /\ b % 2 = 1 THEN 1 ELSE 0) + 2 * BitAnd(a \div 2, b \div 2)

\* basic::wrap: i & (n_elements - 1)
wrap(i) == BitAnd(i, n_elements - 1)

\* basic::next: the write position and has_data after next()
next_write_at(wa) == wrap(wa + 1)

\* oldest_unsafe without the lap test: the start of the storage, always.
oldest_unsafe_zero(hd, lw, wa) ==
  IF ~hd THEN npos ELSE 0

\* lappable::oldest_unsafe
oldest_unsafe(hd, lw, wa) ==
  IF ~hd THEN npos
  ELSE IF lw = 0 THEN 0 ELSE wa

\* Number of writes committed: laps completed plus position in the lap.
Committed == lap_ * n_elements + write_at

-----------------------------------------------------------------------------
(* lappable::cursor::read *)

\* was_lapped that sends the cursor to the start of the storage.
Lapped_rewinds(nl, nr) ==
  [err |-> "was_lapped", lap |-> nl, read_at |-> 0, ref |-> <<>>]

Lapped(nl, nr) ==
  [err |-> "was_lapped", lap |-> nl, read_at |-> nr, ref |-> <<>>]

\* is_empty that sends the cursor back to the start of the storage.
Empty_rewinds(lr, ra) ==
  [err |-> "is_empty", lap |-> lr, read_at |-> 0, ref |-> <<>>]

Empty(lr, ra) ==
  [err |-> "is_empty", lap |-> lr, read_at |-> ra, ref |-> <<>>]

\* &buf[read_at]: operator[] throws out_of_range for an index >= n_elements
Data(lr, ra) ==
  IF ra \in Slots
    THEN [err |-> "none", lap |-> lr, read_at |-> ra, ref |-> <<ra>>]
    ELSE [err |-> "out_of_range", lap |-> lr, read_at |-> ra, ref |-> <<>>]

\* peek_unsafe without the lap test of its last branch: a cursor ahead of the
\* write position is always taken to be lapped.
peek_unsafe_ahead(hd, wa, lw, ra, lr) ==
  IF ~hd THEN Empty(lr, ra)
  ELSE IF ra < wa THEN
    IF lr < lw THEN Lapped(lw - 1, oldest_unsafe(hd, lw, wa))
    ELSE Data(lr, ra)
  ELSE IF ra = wa THEN
    IF lr = lw THEN Empty(lr, ra)
    ELSE IF lr + 1 < lw THEN Lapped(lw - 1, ra)
    ELSE Data(lr, ra)
  ELSE Lapped(lw, oldest_unsafe(hd, lw, wa))

\* peek_unsafe taking equal positions to mean empty whatever the laps.
peek_unsafe_nolaps(hd, wa, lw, ra, lr) ==
  IF ~hd THEN Empty(lr, ra)
  ELSE IF ra < wa THEN
    IF lr < lw THEN Lapped(lw - 1, oldest_unsafe(hd, lw, wa))
    ELSE Data(lr, ra)
  ELSE IF ra = wa THEN Empty(lr, ra)
  ELSE
    IF lr + 1 # lw THEN Lapped(lw, oldest_unsafe(hd, lw, wa))
    ELSE Data(lr, ra)

\* peek_unsafe without the has_data test.
peek_unsafe_unguarded(hd, wa, lw, ra, lr) ==
  IF ra < wa THEN
    IF lr < lw THEN Lapped(lw - 1, oldest_unsafe(hd, lw, wa))
    ELSE Data(lr, ra)
  ELSE IF ra = wa THEN
    IF lr = lw THEN Empty(lr, ra)
    ELSE IF lr + 1 < lw THEN Lapped(lw - 1, ra)
    ELSE Data(lr, ra)
  ELSE
    IF lr + 1 # lw THEN Lapped(lw, oldest_unsafe(hd, lw, wa))
    ELSE Data(lr, ra)

\* cursor::read::peek_unsafe: the error set, the cursor's lap and read_at
\* after the call, and the pointer returned.
\* peek_unsafe handing out the slot behind the write position whatever the
\* laps say.
peek_unsafe_stale(hd, wa, lw, ra, lr) ==
  IF ~hd THEN Empty(lr, ra)
  ELSE IF ra < wa THEN Data(lr, ra)
  ELSE IF ra = wa THEN
    IF lr = lw THEN Empty(lr, ra)
    ELSE IF lr + 1 < lw THEN Lapped(lw - 1, ra)
    ELSE Data(lr, ra)
  ELSE
    IF lr + 1 # lw THEN Lapped(lw, oldest_unsafe(hd, lw, wa))
    ELSE Data(lr, ra)

\* peek_unsafe taking a cursor ahead of the write position to be lapped only
\* when it is more than one lap behind.
peek_unsafe_lenient(hd, wa, lw, ra, lr) ==
  IF ~hd THEN Empty(lr, ra)
  ELSE IF ra < wa THEN
    IF lr < lw THEN Lapped(lw - 1, oldest_unsafe(hd, lw, wa))
    ELSE Data(lr, ra)
  ELSE IF ra = wa THEN
    IF lr = lw THEN Empty(lr, ra)
    ELSE IF lr + 1 < lw THEN Lapped(lw - 1, ra)
    ELSE Data(lr, ra)
  ELSE
    IF lr + 1 < lw THEN Lapped(lw, oldest_unsafe(hd, lw, wa))
    ELSE Data(lr, ra)

peek_unsafe(hd, wa, lw, ra, lr) ==
  IF ~hd THEN Empty(lr, ra)
  ELSE IF ra < wa THEN
    IF lr < lw THEN Lapped(lw - 1, oldest_unsafe(hd, lw, wa))
    ELSE Data(lr, ra)
  ELSE IF ra = wa THEN
    IF lr = lw THEN Empty(lr, ra)
    ELSE IF lr + 1 < lw THEN Lapped(lw - 1, ra)
    ELSE Data(lr, ra)
  ELSE
    IF lr + 1 # lw THEN Lapped(lw, oldest_unsafe(hd, lw, wa))
    ELSE Data(lr, ra)

\* get's advance without the lap increment on wrapping.
get_advance_nolap(res) ==
  IF res.ref = <<>> THEN res
  ELSE [res EXCEPT !.read_at = wrap(res.read_at + 1)]

\* cursor::read::get after peek_unsafe returned a pointer: advance and wrap.
get_advance(res) ==
  IF res.ref = <<>> THEN res
  ELSE LET nr == wrap(res.read_at + 1)
       IN [res EXCEPT !.read_at = nr,
                      !.lap = IF nr = 0 THEN res.lap + 1 ELSE res.lap]

\* peek() / get() called: the thread goes for the mutex.
CallPeek(r) ==
  /\ r \in rcur
  /\ rpc[r] = "idle"
  /\ rpc' = [rpc EXCEPT ![r] = "peek_wait"]
  /\ ref' = [ref EXCEPT ![r] = <<>>]
  /\ UNCHANGED <<bufvars, cfgvars, wvars, read_at, lap, errno_>>

CallGet(r) ==
  /\ r \in rcur
  /\ rpc[r] = "idle"
  /\ rpc' = [rpc EXCEPT ![r] = "get_wait"]
  /\ ref' = [ref EXCEPT ![r] = <<>>]
  /\ UNCHANGED <<bufvars, cfgvars, wvars, read_at, lap, errno_>>

\* wax::lock l(buf.mux) in peek() and get()
ReadLock(r) ==
  /\ rpc[r] \in {"peek_wait", "get_wait"}
  /\ mux = NoThread
  /\ mux' = r
  /\ rpc' = [rpc EXCEPT ![r] = IF rpc[r] = "peek_wait" THEN "peek_cs" ELSE "get_cs"]
  /\ UNCHANGED <<ring, write_at, has_data, lap_, cfgvars, wvars,
                 read_at, lap, errno_, ref>>

\* A return that leaves the error of the call in every cursor of the buffer.
ReadReturn_shared(r, res) ==
  /\ errno_' = [o \in Readers |-> res.err]
  /\ lap' = [lap EXCEPT ![r] = res.lap]
  /\ read_at' = [read_at EXCEPT ![r] = res.read_at]
  /\ ref' = [ref EXCEPT ![r] = res.ref]
  /\ rpc' = [rpc EXCEPT ![r] = IF res.ref = <<>> THEN "idle" ELSE "using"]
  /\ mux' = NoThread

\* A return that sets the error only when the call failed.
ReadReturn_sticky(r, res) ==
  /\ errno_' = [errno_ EXCEPT ![r] = IF res.err = "none" THEN @ ELSE res.err]
  /\ lap' = [lap EXCEPT ![r] = res.lap]
  /\ read_at' = [read_at EXCEPT ![r] = res.read_at]
  /\ ref' = [ref EXCEPT ![r] = res.ref]
  /\ rpc' = [rpc EXCEPT ![r] = IF res.ref = <<>> THEN "idle" ELSE "using"]
  /\ mux' = NoThread

\* What a call leaves in the cursor, and where the thread goes: it holds the
\* returned pointer ("using") until it is done with the slot.
ReadReturn(r, res) ==
  /\ errno_' = [errno_ EXCEPT ![r] = res.err]
  /\ lap' = [lap EXCEPT ![r] = res.lap]
  /\ read_at' = [read_at EXCEPT ![r] = res.read_at]
  /\ ref' = [ref EXCEPT ![r] = res.ref]
  /\ rpc' = [rpc EXCEPT ![r] = IF res.ref = <<>> THEN "idle" ELSE "using"]
  /\ mux' = NoThread

\* peek() that advances the cursor as get() does.
PeekBody_advances(r) ==
  /\ rpc[r] = "peek_cs"
  /\ mux = r
  /\ ReadReturn(r, get_advance(peek_unsafe(has_data, write_at, lap_,
                                           read_at[r], lap[r])))
  /\ UNCHANGED <<ring, write_at, has_data, lap_, cfgvars, wvars>>

\* peek(): peek_unsafe under the lock, then the lock is dropped on return.
PeekBody(r) ==
  /\ rpc[r] = "peek_cs"
  /\ mux = r
  /\ ReadReturn(r, peek_unsafe(has_data, write_at, lap_, read_at[r], lap[r]))
  /\ UNCHANGED <<ring, write_at, has_data, lap_, cfgvars, wvars>>

\* get(): peek_unsafe and the advance under the lock.
GetBody(r) ==
  /\ rpc[r] = "get_cs"
  /\ mux = r
  /\ ReadReturn(r, get_advance(peek_unsafe(has_data, write_at, lap_,
                                           read_at[r], lap[r])))
  /\ UNCHANGED <<ring, write_at, has_data, lap_, cfgvars, wvars>>

\* The caller is done with the slot the call returned.
ReadDone(r) ==
  /\ rpc[r] = "using"
  /\ rpc' = [rpc EXCEPT ![r] = "idle"]
  /\ UNCHANGED <<bufvars, cfgvars, wvars, read_at, lap, errno_, ref>>

-----------------------------------------------------------------------------
(* lappable::cursor::write *)

\* put(val) called with the next payload.
CallPut(w) ==
  /\ w \in wcur
  /\ wpc[w] = "idle"
  /\ issued < MaxWrites
  /\ wpc' = [wpc EXCEPT ![w] = "put_was"]
  /\ val' = [val EXCEPT ![w] = Payload(issued)]
  /\ issued' = issued + 1
  /\ UNCHANGED <<bufvars, cfgvars, was, p, rvars>>

\* put(): const auto was = buf.write_at, read before ptr() takes the mutex.
PutWas(w) ==
  /\ wpc[w] = "put_was"
  /\ was' = [was EXCEPT ![w] = write_at]
  /\ wpc' = [wpc EXCEPT ![w] = "ptr_wait"]
  /\ UNCHANGED <<bufvars, cfgvars, p, val, issued, rvars>>

\* ptr() called directly (two-phase write); the caller fills the slot itself.
CallPtr(w) ==
  /\ w \in wcur
  /\ wpc[w] = "idle"
  /\ issued < MaxWrites
  /\ wpc' = [wpc EXCEPT ![w] = "ptr_wait"]
  /\ val' = [val EXCEPT ![w] = Payload(issued)]
  /\ was' = [was EXCEPT ![w] = npos]
  /\ issued' = issued + 1
  /\ UNCHANGED <<bufvars, cfgvars, p, rvars>>

\* ptr(): wax::lock l(buf.mux)
PtrLock(w) ==
  /\ wpc[w] = "ptr_wait"
  /\ mux = NoThread
  /\ mux' = w
  /\ wpc' = [wpc EXCEPT ![w] = "ptr_cs"]
  /\ UNCHANGED <<ring, write_at, has_data, lap_, cfgvars, was, p, val, issued, rvars>>

\* ptr() that advances the write position as next() does.
PtrBody_advances(w) ==
  /\ wpc[w] = "ptr_cs"
  /\ mux = w
  /\ p' = [p EXCEPT ![w] = write_at]
  /\ write_at' = next_write_at(write_at)
  /\ mux' = NoThread
  /\ wpc' = [wpc EXCEPT ![w] = "fill_lo"]
  /\ UNCHANGED <<ring, has_data, lap_, cfgvars, was, val, issued, rvars>>

\* ptr() returning with the mutex still held.
PtrBody_holds(w) ==
  /\ wpc[w] = "ptr_cs"
  /\ mux = w
  /\ p' = [p EXCEPT ![w] = write_at]
  /\ wpc' = [wpc EXCEPT ![w] = "fill_lo"]
  /\ UNCHANGED <<bufvars, cfgvars, was, val, issued, rvars>>

\* ptr() that marks the buffer as holding data.
PtrBody_commits(w) ==
  /\ wpc[w] = "ptr_cs"
  /\ mux = w
  /\ p' = [p EXCEPT ![w] = write_at]
  /\ has_data' = TRUE
  /\ mux' = NoThread
  /\ wpc' = [wpc EXCEPT ![w] = "fill_lo"]
  /\ UNCHANGED <<ring, write_at, lap_, cfgvars, was, val, issued, rvars>>

\* ptr(): return buf.at(), dropping the lock.
PtrBody(w) ==
  /\ wpc[w] = "ptr_cs"
  /\ mux = w
  /\ p' = [p EXCEPT ![w] = write_at]
  /\ mux' = NoThread
  /\ wpc' = [wpc EXCEPT ![w] = "fill_lo"]
  /\ UNCHANGED <<ring, write_at, has_data, lap_, cfgvars, was, val, issued, rvars>>

\* memcpy(p, &val, sizeof(*p)), first half; no lock is held.
FillLo(w) ==
  /\ wpc[w] = "fill_lo"
  /\ ring' = [ring EXCEPT ![p[w]].lo = val[w]]
  /\ wpc' = [wpc EXCEPT ![w] = "fill_hi"]
  /\ UNCHANGED <<write_at, has_data, lap_, mux, cfgvars, was, p, val, issued, rvars>>

\* memcpy, second half; then ready() is called.
FillHi(w) ==
  /\ wpc[w] = "fill_hi"
  /\ ring' = [ring EXCEPT ![p[w]].hi = val[w]]
  /\ wpc' = [wpc EXCEPT ![w] = "ready_wait"]
  /\ UNCHANGED <<write_at, has_data, lap_, mux, cfgvars, was, p, val, issued, rvars>>

\* ready(): wax::lock l(buf.mux)
ReadyLock(w) ==
  /\ wpc[w] = "ready_wait"
  /\ mux = NoThread
  /\ mux' = w
  /\ wpc' = [wpc EXCEPT ![w] = "ready_next"]
  /\ UNCHANGED <<ring, write_at, has_data, lap_, cfgvars, was, p, val, issued, rvars>>

\* next() that advances the write position and leaves has_data alone.
ReadyNext_silent(w) ==
  /\ wpc[w] = "ready_next"
  /\ mux = w
  /\ write_at' = next_write_at(write_at)
  /\ wpc' = [wpc EXCEPT ![w] = "ready_lap"]
  /\ UNCHANGED <<ring, has_data, lap_, mux, cfgvars, was, p, val, issued, rvars>>

\* ready(): (void) buf.next()
ReadyNext(w) ==
  /\ wpc[w] = "ready_next"
  /\ mux = w
  /\ write_at' = next_write_at(write_at)
  /\ has_data' = TRUE
  /\ wpc' = [wpc EXCEPT ![w] = "ready_lap"]
  /\ UNCHANGED <<ring, lap_, mux, cfgvars, was, p, val, issued, rvars>>

\* ready() returning without counting the lap.
ReadyLap_uncounted(w) ==
  /\ wpc[w] = "ready_lap"
  /\ mux = w
  /\ mux' = NoThread
  /\ wpc' = [wpc EXCEPT ![w] = "idle"]
  /\ UNCHANGED <<ring, write_at, has_data, lap_, cfgvars, was, p, val, issued, rvars>>

\* ready(): if (buf.write_at == 0) ++buf.lap_; the lock is dropped on return,
\* and put() returns was.
ReadyLap(w) ==
  /\ wpc[w] = "ready_lap"
  /\ mux = w
  /\ lap_' = IF write_at = 0 THEN lap_ + 1 ELSE lap_
  /\ mux' = NoThread
  /\ wpc' = [wpc EXCEPT ![w] = "idle"]
  /\ UNCHANGED <<ring, write_at, has_data, cfgvars, was, p, val, issued, rvars>>

\* basic::next() called on the lappable, which inherits it publicly: the
\* write position advances and wraps; no lock is taken, lap_ is not touched.
BasicNext(w) ==
  /\ w \in wcur
  /\ wpc[w] = "idle"
  /\ write_at' = next_write_at(write_at)
  /\ has_data' = TRUE
  /\ issued' = issued + 1
  /\ UNCHANGED <<ring, lap_, mux, cfgvars, wpc, was, p, val, rvars>>

\* basic::write(value_type &&) called on the lappable: the value is moved to
\* the slot at write_at, then next().
BasicWrite(w) ==
  /\ w \in wcur
  /\ wpc[w] = "idle"
  /\ ring' = [ring EXCEPT ![write_at] = Whole(Payload(issued))]
  /\ write_at' = next_write_at(write_at)
  /\ has_data' = TRUE
  /\ was' = [was EXCEPT ![w] = write_at]
  /\ issued' = issued + 1
  /\ UNCHANGED <<lap_, mux, cfgvars, wpc, p, val, rvars>>

-----------------------------------------------------------------------------
(* Calls that return an index or nothing: swap, oldest, last, find.  ret     *)
(* holds what the thread's last such call returned.                          *)

NoRet == [op |-> "none", threw |-> FALSE, val |-> npos]
Returned(o, v) == [op |-> o, threw |-> FALSE, val |-> v]
Threw(o) == [op |-> o, threw |-> TRUE, val |-> npos]

\* The indices a caller may pass to swap(): in range, and two out of range.
SwapArgs == 0 .. (n_elements + 1)

\* What a swap(idx) call left: its argument, and the index it returned or
\* the exception it threw.
Swapped(idx, old) == [op |-> "swap", threw |-> FALSE, val |-> old, arg |-> idx]
SwapThrew(idx) == [op |-> "swap", threw |-> TRUE, val |-> npos, arg |-> idx]

\* swap without the range check.
swap_unchecked(r, idx) ==
  /\ r \in rcur
  /\ rpc[r] = "idle"
  /\ ret' = [ret EXCEPT ![r] = Swapped(idx, read_at[r])]
  /\ read_at' = [read_at EXCEPT ![r] = idx]
  /\ UNCHANGED <<bufvars, cfgvars, wvars, rpc, lap, errno_, ref, flocal>>

\* cursor::read::swap: throws invalid_argument for idx >= n_elements, else
\* read_at = idx and the old read_at is returned.  No lock is taken.
swap(r, idx) ==
  /\ r \in rcur
  /\ rpc[r] = "idle"
  /\ IF idx >= n_elements
       THEN /\ ret' = [ret EXCEPT ![r] = SwapThrew(idx)]
            /\ UNCHANGED read_at
       ELSE /\ ret' = [ret EXCEPT ![r] = Swapped(idx, read_at[r])]
            /\ read_at' = [read_at EXCEPT ![r] = idx]
  /\ UNCHANGED <<bufvars, cfgvars, wvars, rpc, lap, errno_, ref, flocal>>

\* lappable::oldest called: the thread goes for the mutex.
CallOldest(r) ==
  /\ r \in rcur
  /\ rpc[r] = "idle"
  /\ rpc' = [rpc EXCEPT ![r] = "oldest_wait"]
  /\ UNCHANGED <<bufvars, cfgvars, wvars, read_at, lap, errno_, ref, opvars>>

\* oldest(): wax::lock l(this->mux)
OldestLock(r) ==
  /\ rpc[r] = "oldest_wait"
  /\ mux = NoThread
  /\ mux' = r
  /\ rpc' = [rpc EXCEPT ![r] = "oldest_cs"]
  /\ UNCHANGED <<ring, write_at, has_data, lap_, cfgvars, wvars,
                 read_at, lap, errno_, ref, opvars>>

\* oldest(): return oldest_unsafe(), dropping the lock.
oldest(r) ==
  /\ rpc[r] = "oldest_cs"
  /\ mux = r
  /\ ret' = [ret EXCEPT
               ![r] = Returned("oldest", oldest_unsafe(has_data, lap_, write_at))]
  /\ mux' = NoThread
  /\ rpc' = [rpc EXCEPT ![r] = "idle"]
  /\ UNCHANGED <<ring, write_at, has_data, lap_, cfgvars, wvars,
                 read_at, lap, errno_, ref, flocal>>

\* basic::last as an index: nothing if ! has_data, else wrap(write_at - 1).
last_index(hd, wa) == IF ~hd THEN npos ELSE wrap(wa - 1)

\* basic::last called on the buffer; it takes no lock.
last(r) ==
  /\ r \in rcur
  /\ rpc[r] = "idle"
  /\ ret' = [ret EXCEPT ![r] = Returned("last", last_index(has_data, write_at))]
  /\ UNCHANGED <<bufvars, cfgvars, wvars, rvars, flocal>>

\* The comparison predicates handed to find(): the default lhs == rhs, one
\* that matches everything, and one that matches default (zeroed) content.
Predicates == {"equal", "always", "is_default"}

\* The values searched for: the default content, the first value written
\* and the value that overwrites it a lap later.
FindValues == {0, Payload(0), Payload(n_elements)}

\* p(ring[i], val)
Matches(pred, slot, v) ==
  CASE pred = "equal" -> slot = Whole(v)
    [] pred = "always" -> TRUE
    [] pred = "is_default" -> slot = Whole(0)

\* basic::find(val, p, lower_bound, upper_bound)
find_range(rg, hd, pred, v, lower_bound, upper_bound) ==
  IF ~hd THEN npos
  ELSE IF lower_bound > upper_bound THEN npos
  ELSE LET hits == {i \in lower_bound .. (upper_bound - 1) :
                      Matches(pred, rg[i], v)}
       IN IF hits = {} THEN npos
          ELSE CHOOSE i \in hits : \A j \in hits : i <= j

NoFind == [pred |-> "equal", val |-> 0, lap0 |-> 0, upper |-> 0]

\* lappable::find(val, p) called.
CallFind(r, pred, v) ==
  /\ r \in rcur
  /\ rpc[r] = "idle"
  /\ rpc' = [rpc EXCEPT ![r] = "find_lap"]
  /\ flocal' = [flocal EXCEPT ![r] = [NoFind EXCEPT !.pred = pred, !.val = v]]
  /\ UNCHANGED <<bufvars, cfgvars, wvars, read_at, lap, errno_, ref, ret>>

\* find(): (lap_ == 0), read without the mutex.
FindLap(r) ==
  /\ rpc[r] = "find_lap"
  /\ flocal' = [flocal EXCEPT ![r].lap0 = lap_]
  /\ rpc' = [rpc EXCEPT ![r] = "find_upper"]
  /\ UNCHANGED <<bufvars, cfgvars, wvars, read_at, lap, errno_, ref, ret>>

\* find() scanning the whole storage whatever the lap, as basic::find does.
FindUpper_capacity(r) ==
  /\ rpc[r] = "find_upper"
  /\ flocal' = [flocal EXCEPT ![r].upper = n_elements]
  /\ rpc' = [rpc EXCEPT ![r] = "find_scan"]
  /\ UNCHANGED <<bufvars, cfgvars, wvars, read_at, lap, errno_, ref, ret>>

\* find(): ? this->write_at : this->capacity()
FindUpper(r) ==
  /\ rpc[r] = "find_upper"
  /\ flocal' = [flocal EXCEPT
                  ![r].upper = IF flocal[r].lap0 = 0 THEN write_at ELSE n_elements]
  /\ rpc' = [rpc EXCEPT ![r] = "find_scan"]
  /\ UNCHANGED <<bufvars, cfgvars, wvars, read_at, lap, errno_, ref, ret>>

\* find(): parent_type::find(val, p, 0, upper); the locals die on return,
\* the arguments stay on record in flocal.
FindScan(r) ==
  /\ rpc[r] = "find_scan"
  /\ ret' = [ret EXCEPT
               ![r] = Returned("find",
                               find_range(ring, has_data, flocal[r].pred,
                                          flocal[r].val, 0, flocal[r].upper))]
  /\ flocal' = [flocal EXCEPT ![r] = [NoFind EXCEPT !.pred = flocal[r].pred,
                                                     !.val = flocal[r].val]]
  /\ rpc' = [rpc EXCEPT ![r] = "idle"]
  /\ UNCHANGED <<bufvars, cfgvars, wvars, read_at, lap, errno_, ref>>

\* The user calls ptr() again on a slot it has not yet filled or committed.
PtrAgain(w) ==
  /\ wpc[w] = "fill_lo"
  /\ was[w] = npos
  /\ wpc' = [wpc EXCEPT ![w] = "ptr_wait"]
  /\ UNCHANGED <<bufvars, cfgvars, was, p, val, issued, rvars, opvars>>

-----------------------------------------------------------------------------
(* anon::basic: the type-erased store.  Positions are byte offsets, a row   *)
(* is stride bytes, and wrap is a modulo on std::size_t values.              *)

\* 2^k modulo m
RECURSIVE Pow2Mod(_, _)
Pow2Mod(k, m) == IF k = 0 THEN 1 % m ELSE (2 * Pow2Mod(k - 1, m)) % m

\* anon::basic::wrap: i % storage_size, where i is a std::size_t: a
\* difference that went below zero has wrapped around to i + 2^SizeBits.
anon_wrap(i, storage_size) ==
  IF i >= 0 THEN i % storage_size
  ELSE ((i % storage_size) + Pow2Mod(SizeBits, storage_size)) % storage_size

\* anon::basic::basic(stride, n_rows), both nonzero: zeroed storage.
anon_basic(stride, n_rows) ==
  [stride |-> stride, n_rows |-> n_rows, storage_size |-> stride * n_rows,
   ring |-> [b \in 0 .. (stride * n_rows - 1) |-> 0],
   write_at |-> 0, has_data |-> FALSE]

\* anon::basic::next: the object after the write position has advanced.
anon_next(a) ==
  [a EXCEPT !.write_at = anon_wrap(a.write_at + a.stride, a.storage_size),
            !.has_data = TRUE]

\* anon::basic::last as a byte offset, npos for nullptr.
anon_last(a) ==
  IF ~a.has_data THEN npos
  ELSE anon_wrap(a.write_at - a.stride, a.storage_size)

\* The source pointer of a write: null, or the address of the caller's bytes.
Sources == {"null", "bytes"}

\* What write(data, len) and put(data, len) come back with.
Wrote(o, data, len, v) ==
  [op |-> o, threw |-> FALSE, val |-> v, data |-> data, len |-> len,
   aborted |-> FALSE]
WriteThrew(o, data, len) ==
  [op |-> o, threw |-> TRUE, val |-> npos, data |-> data, len |-> len,
   aborted |-> FALSE]
Aborted(o, data, len) ==
  [op |-> o, threw |-> FALSE, val |-> npos, data |-> data, len |-> len,
   aborted |-> TRUE]

\* memcpy(at(), data, len): the storage after len bytes were copied to the
\* write position; bytes past the end of the storage land outside it.
anon_copy(a, len, v) ==
  [a EXCEPT !.ring = [b \in DOMAIN a.ring |->
     IF b >= a.write_at /\ b < a.write_at + len THEN v ELSE a.ring[b]]]

\* write(data, len): throws if data is null or len > stride, else copies len
\* bytes to the write position, advances, and returns the offset written.
AnonWrite(data, len) ==
  /\ anon_n < MaxAnonWrites
  /\ IF data = "null" \/ len > anon.stride
       THEN /\ anon_ret' = WriteThrew("write", data, len)
            /\ UNCHANGED <<anon, anon_n>>
       ELSE /\ anon' = anon_next(anon_copy(anon, len, Payload(anon_n)))
            /\ anon_ret' = Wrote("write", data, len, anon.write_at)
            /\ anon_n' = anon_n + 1

\* next(): commits the row the caller filled through at().
AnonNext ==
  /\ anon_n < MaxAnonWrites
  /\ anon' = anon_next(anon)
  /\ anon_ret' = Returned("next", anon.write_at)
  /\ anon_n' = anon_n + 1

\* at(): the offset of the row to be written next.
AnonAt ==
  /\ anon_ret' = Returned("at", anon.write_at)
  /\ UNCHANGED <<anon, anon_n>>

\* last()
AnonLast ==
  /\ anon_ret' = Returned("last", anon_last(anon))
  /\ UNCHANGED <<anon, anon_n>>

-----------------------------------------------------------------------------
(* anon::lappable and its cursors: the algorithm of the typed buffer on     *)
(* byte offsets.                                                            *)

\* anon::lappable::oldest_unsafe
anon_oldest_unsafe(a, lw) ==
  IF ~a.has_data THEN npos
  ELSE IF lw = 0 THEN 0 ELSE a.write_at

\* cursor::read as constructed
anon_read == [read_at |-> 0, lap |-> 0, errno_ |-> "none", ref |-> <<>>]

\* buf[read_at]: operator[] throws out_of_range for an offset >= storage_size
anon_data(a, c) ==
  IF c.read_at < a.storage_size
    THEN [c EXCEPT !.errno_ = "none", !.ref = <<c.read_at>>]
    ELSE [c EXCEPT !.errno_ = "out_of_range", !.ref = <<>>]

\* anon cursor::read::peek_unsafe: the cursor after the call; ref is the
\* pointer returned, <<>> for nullptr.
anon_peek_unsafe(a, lw, c) ==
  IF ~a.has_data THEN [c EXCEPT !.errno_ = "is_empty", !.ref = <<>>]
  ELSE IF c.read_at < a.write_at THEN
    IF c.lap < lw
      THEN [read_at |-> anon_oldest_unsafe(a, lw), lap |-> lw - 1,
            errno_ |-> "was_lapped", ref |-> <<>>]
      ELSE anon_data(a, c)
  ELSE IF c.read_at = a.write_at THEN
    IF c.lap = lw THEN [c EXCEPT !.errno_ = "is_empty", !.ref = <<>>]
    ELSE IF c.lap + 1 < lw
      THEN [c EXCEPT !.lap = lw - 1, !.errno_ = "was_lapped", !.ref = <<>>]
    ELSE anon_data(a, c)
  ELSE
    IF c.lap + 1 # lw
      THEN [read_at |-> anon_oldest_unsafe(a, lw), lap |-> lw,
            errno_ |-> "was_lapped", ref |-> <<>>]
      ELSE anon_data(a, c)

\* get that advances by one byte, not by one row.
anon_get_byte(a, lw, c) ==
  LET res == anon_peek_unsafe(a, lw, c)
      nr == anon_wrap(res.read_at + 1, a.storage_size)
  IN IF res.ref = <<>> THEN res
     ELSE [res EXCEPT !.read_at = nr,
                      !.lap = IF nr = 0 THEN res.lap + 1 ELSE res.lap]

\* anon cursor::read::get: peek_unsafe, then advance by one row and wrap.
anon_get(a, lw, c) ==
  LET res == anon_peek_unsafe(a, lw, c)
      nr == anon_wrap(res.read_at + a.stride, a.storage_size)
  IN IF res.ref = <<>> THEN res
     ELSE [res EXCEPT !.read_at = nr,
                      !.lap = IF nr = 0 THEN res.lap + 1 ELSE res.lap]

\* anon cursor::write::ready: next(), and the lap counted when it wrapped.
anon_ready_lap(a, lw) ==
  IF anon_next(a).write_at = 0 THEN lw + 1 ELSE lw

\* anon cursor::write::put(data, len).  Its two argument checks are
\* assert()s: a build with assertions aborts the process on a null source
\* or a len > stride; a build with NDEBUG copies len bytes all the same,
\* which for a null source is a fault in memcpy.
AnonPut(data, len) ==
  /\ UNCHANGED anon_cur
  /\ IF data = "null" \/ len > anon.stride
       THEN \/ /\ anon_ret' = Aborted("put", data, len)
               /\ UNCHANGED <<anon, anon_n, anon_lap>>
            \/ /\ data # "null"
               /\ anon' = anon_next(anon_copy(anon, len, Payload(anon_n)))
               /\ anon_lap' = anon_ready_lap(anon, anon_lap)
               /\ anon_ret' = Wrote("put", data, len, anon.write_at)
               /\ anon_n' = anon_n + 1
       ELSE /\ anon' = anon_next(anon_copy(anon, len, Payload(anon_n)))
            /\ anon_lap' = anon_ready_lap(anon, anon_lap)
            /\ anon_ret' = Wrote("put", data, len, anon.write_at)
            /\ anon_n' = anon_n + 1

\* anon cursor::write::ready() after the caller filled the row ptr() gave.
AnonReady ==
  /\ anon' = anon_next(anon)
  /\ anon_lap' = anon_ready_lap(anon, anon_lap)
  /\ anon_ret' = Returned("ready", npos)
  /\ anon_n' = anon_n + 1
  /\ UNCHANGED anon_cur

\* anon cursor::read::peek()
AnonPeek ==
  /\ anon_cur' = anon_peek_unsafe(anon, anon_lap, anon_cur)
  /\ anon_ret' = Returned("peek", npos)
  /\ UNCHANGED <<anon, anon_n, anon_lap>>

\* anon cursor::read::get()
AnonGet ==
  /\ anon_cur' = anon_get(anon, anon_lap, anon_cur)
  /\ anon_ret' = Returned("get", npos)
  /\ UNCHANGED <<anon, anon_n, anon_lap>>

\* anon::lappable::oldest()
AnonOldest ==
  /\ anon_ret' = Returned("oldest", anon_oldest_unsafe(anon, anon_lap))
  /\ UNCHANGED <<anon, anon_n, anon_lap, anon_cur>>

\* The typed buffer's variables, which the anon::basic object does not touch.
typedvars == <<bufvars, cfgvars, wvars, rvars, obsvars, opvars>>

-----------------------------------------------------------------------------
(* msg_queue: a std::queue under a mutex, with a condition variable the     *)
(* blocking pops wait on.  A thread is waiting on cond exactly while it is  *)
(* at "pop_wait" or "until_wait"; the wait has released the mutex.          *)

Producers == {"p1", "p2"}
Consumers == {"c1", "c2"}
NoMsg == 0

\* The threads blocked in cond.wait or cond.wait_for.
Waiting == {c \in Consumers : qpc[c] \in {"pop_wait", "until_wait"}}

\* front() without pop(): the message is handed out and stays queued.
Take_keeps(c) ==
  /\ qmsg' = [qmsg EXCEPT ![c] = Head(q)]
  /\ dlv' = Append(dlv, Head(q))
  /\ UNCHANGED <<q, pushes, enq>>

\* front() and pop(): the message is moved into msg and leaves the queue.
Take(c) ==
  /\ qmsg' = [qmsg EXCEPT ![c] = Head(q)]
  /\ q' = Tail(q)
  /\ dlv' = Append(dlv, Head(q))
  /\ UNCHANGED <<pushes, enq>>

\* push(msg) is called with a message not sent before.
CallPush(t) ==
  /\ qpc[t] = "idle"
  /\ pushes < MaxPushes
  /\ pushes' = pushes + 1
  /\ qmsg' = [qmsg EXCEPT ![t] = pushes + 1]
  /\ qpc' = [qpc EXCEPT ![t] = "push_lock"]
  /\ UNCHANGED <<q, qmux, qret, enq, dlv>>

\* A thread at a lock statement, or coming back from a wait, takes the
\* mutex when it is free.
QLock(t) ==
  /\ qpc[t] \in {"push_lock", "pop_lock", "if_lock", "until_lock",
                 "pop_relock", "until_relock", "until_expired"}
  /\ qmux = NoThread
  /\ qmux' = t
  /\ qpc' = [qpc EXCEPT ![t] =
       CASE qpc[t] = "push_lock" -> "push_cs"
         [] qpc[t] = "pop_lock" -> "pop_test"
         [] qpc[t] = "pop_relock" -> "pop_test"
         [] qpc[t] = "if_lock" -> "if_cs"
         [] qpc[t] = "until_lock" -> "until_test"
         [] qpc[t] = "until_relock" -> "until_woken"
         [] qpc[t] = "until_expired" -> "until_timeout"]
  /\ UNCHANGED <<q, qmsg, qret, pushes, enq, dlv>>

\* push: q.push(msg) under the lock, which the closing brace releases.
PushBody(t) ==
  /\ qpc[t] = "push_cs"
  /\ qmux = t
  /\ q' = Append(q, qmsg[t])
  /\ enq' = Append(enq, qmsg[t])
  /\ qmux' = NoThread
  /\ qpc' = [qpc EXCEPT ![t] = "push_notify"]
  /\ UNCHANGED <<qmsg, qret, pushes, dlv>>

\* push: cond.notify_one() wakes one of the threads waiting, if any.
PushNotify(t) ==
  /\ qpc[t] = "push_notify"
  /\ IF Waiting = {}
       THEN qpc' = [qpc EXCEPT ![t] = "idle"]
       ELSE \E c \in Waiting :
              qpc' = [qpc EXCEPT
                        ![t] = "idle",
                        ![c] = IF qpc[c] = "pop_wait" THEN "pop_relock"
                               ELSE "until_relock"]
  /\ UNCHANGED <<q, qmux, qmsg, qret, pushes, enq, dlv>>

\* pop(msg), pop_if(msg) or pop_until(msg, t) is called.
CallPop(c, op) ==
  /\ qpc[c] = "idle"
  /\ qpc' = [qpc EXCEPT ![c] =
       CASE op = "pop" -> "pop_lock"
         [] op = "pop_if" -> "if_lock"
         [] op = "pop_until" -> "until_lock"]
  /\ qmsg' = [qmsg EXCEPT ![c] = NoMsg]
  /\ qret' = [qret EXCEPT ![c] = [op |-> op, val |-> "pending"]]
  /\ UNCHANGED <<q, qmux, pushes, enq, dlv>>

\* pop: while (q.empty()) cond.wait(lk); then the message is taken and the
\* lock released on return.
PopTest(c) ==
  /\ qpc[c] = "pop_test"
  /\ qmux = c
  /\ qmux' = NoThread
  /\ IF q = <<>>
       THEN /\ qpc' = [qpc EXCEPT ![c] = "pop_wait"]
            /\ UNCHANGED <<q, qmsg, qret, pushes, enq, dlv>>
       ELSE /\ Take(c)
            /\ qret' = [qret EXCEPT ![c].val = "void"]
            /\ qpc' = [qpc EXCEPT ![c] = "idle"]

\* A wait on a condition variable may end without a notification.
Spurious(c) ==
  /\ c \in Waiting
  /\ qpc' = [qpc EXCEPT ![c] = IF qpc[c] = "pop_wait" THEN "pop_relock"
                                ELSE "until_relock"]
  /\ UNCHANGED <<q, qmux, qmsg, qret, pushes, enq, dlv>>

\* pop_if: false if the queue is empty, else the message is taken.
PopIfBody(c) ==
  /\ qpc[c] = "if_cs"
  /\ qmux = c
  /\ qmux' = NoThread
  /\ qpc' = [qpc EXCEPT ![c] = "idle"]
  /\ IF q = <<>>
       THEN /\ qret' = [qret EXCEPT ![c].val = "false"]
            /\ UNCHANGED <<q, qmsg, pushes, enq, dlv>>
       ELSE /\ Take(c)
            /\ qret' = [qret EXCEPT ![c].val = "true"]

\* pop_until: while (q.empty()) the thread waits with a timeout; then the
\* message is taken.
UntilTest(c) ==
  /\ qpc[c] = "until_test"
  /\ qmux = c
  /\ qmux' = NoThread
  /\ IF q = <<>>
       THEN /\ qpc' = [qpc EXCEPT ![c] = "until_wait"]
            /\ UNCHANGED <<q, qmsg, qret, pushes, enq, dlv>>
       ELSE /\ Take(c)
            /\ qret' = [qret EXCEPT ![c].val = "true"]
            /\ qpc' = [qpc EXCEPT ![c] = "idle"]

\* The timeout of wait_for runs out while the thread waits.
UntilExpire(c) ==
  /\ qpc[c] = "until_wait"
  /\ qpc' = [qpc EXCEPT ![c] = "until_expired"]
  /\ UNCHANGED <<q, qmux, qmsg, qret, pushes, enq, dlv>>

\* wait_for returns, the mutex held again, to a thread that was notified or
\* woke spuriously: no_timeout and the loop tests the queue again, or, when
\* the time had run out by then, timeout and pop_until returns false.
UntilWoken(c) ==
  /\ qpc[c] = "until_woken"
  /\ qmux = c
  /\ \/ /\ qpc' = [qpc EXCEPT ![c] = "until_test"]
        /\ UNCHANGED <<q, qmux, qmsg, qret, pushes, enq, dlv>>
     \/ /\ qpc' = [qpc EXCEPT ![c] = "idle"]
        /\ qret' = [qret EXCEPT ![c].val = "false"]
        /\ qmux' = NoThread
        /\ UNCHANGED <<q, qmsg, pushes, enq, dlv>>

\* wait_for returns timeout to a thread whose time ran out in the wait:
\* pop_until returns false.
UntilTimeout(c) ==
  /\ qpc[c] = "until_timeout"
  /\ qmux = c
  /\ qmux' = NoThread
  /\ qpc' = [qpc EXCEPT ![c] = "idle"]
  /\ qret' = [qret EXCEPT ![c].val = "false"]
  /\ UNCHANGED <<q, qmsg, pushes, enq, dlv>>

\* msg_queue as constructed, and its threads before their first call.
InitQueue ==
  /\ q = <<>>
  /\ qmux = NoThread
  /\ qpc = [t \in Producers \cup Consumers |-> "idle"]
  /\ qmsg = [t \in Producers \cup Consumers |-> NoMsg]
  /\ qret = [c \in Consumers |-> [op |-> "none", val |-> "none"]]
  /\ pushes = 0
  /\ enq = <<>>
  /\ dlv = <<>>

-----------------------------------------------------------------------------
(* thread_loop: start() makes a thread that calls the service function      *)
(* every subdiv-th pass of its loop until should_stop is set or the         *)
(* function returns r_stop; stop() sets should_stop and joins the thread.   *)
(* In loop, joinable is th.joinable(), running says that the thread of th   *)
(* has not yet left its function, and at is where that thread is.           *)

\* What the service function may return: r_ok, r_stop, or a new interval.
Results == {"r_ok", "r_stop", "grain"}

\* The interval a "grain" result asks for, in units of the initial one.
NewGrain == 2

\* thread_loop(svc_func, wait_hz, subdiv)
thread_loop(subdiv) ==
  [should_stop |-> FALSE, joinable |-> FALSE, running |-> FALSE,
   at |-> "test", subdiv |-> subdiv, duty_cycle |-> subdiv, delay |-> 1]

\* start(): nothing if th is joinable, else should_stop is cleared and a
\* new thread begins the loop.
Start ==
  /\ ctl.pc = "idle"
  /\ ctl.n < MaxCtlCalls
  /\ ctl' = [ctl EXCEPT !.last = "start", !.n = ctl.n + 1]
  /\ loop' = IF loop.joinable THEN loop
             ELSE [loop EXCEPT !.should_stop = FALSE, !.joinable = TRUE,
                               !.running = TRUE, !.at = "test"]
  /\ UNCHANGED <<svc_calls, svc_stopped>>

\* stop(): should_stop = true, then the sleep.
StopSet ==
  /\ ctl.pc = "idle"
  /\ ctl.n < MaxCtlCalls
  /\ ctl' = [pc |-> "join", last |-> "stop", n |-> ctl.n + 1]
  /\ loop' = [loop EXCEPT !.should_stop = TRUE]
  /\ UNCHANGED <<svc_calls, svc_stopped>>

\* stop(): if (th.joinable()) th.join(), which returns when the thread has
\* left its function.
StopJoin ==
  /\ ctl.pc = "join"
  /\ loop.joinable => ~loop.running
  /\ ctl' = [ctl EXCEPT !.pc = "idle"]
  /\ loop' = [loop EXCEPT !.joinable = FALSE]
  /\ UNCHANGED <<svc_calls, svc_stopped>>

\* The thread: while (!should_stop)
LoopTest ==
  /\ loop.running
  /\ loop.at = "test"
  /\ loop' = IF loop.should_stop THEN [loop EXCEPT !.running = FALSE]
             ELSE [loop EXCEPT !.at = "tick"]
  /\ UNCHANGED <<ctl, svc_calls, svc_stopped>>

\* The thread: a pass that is not the subdiv-th only counts down and sleeps.
LoopIdle ==
  /\ loop.running
  /\ loop.at = "tick"
  /\ loop.duty_cycle - 1 # 0
  /\ loop' = [loop EXCEPT !.duty_cycle = loop.duty_cycle - 1, !.at = "test"]
  /\ UNCHANGED <<ctl, svc_calls, svc_stopped>>

\* The thread: the subdiv-th pass calls the service function; r_stop ends
\* the thread, a positive result becomes the new delay.
LoopCall(result) ==
  /\ loop.running
  /\ loop.at = "tick"
  /\ loop.duty_cycle - 1 = 0
  /\ svc_calls < MaxSvcCalls
  /\ svc_calls' = svc_calls + 1
  /\ svc_stopped' = (svc_stopped \/ result = "r_stop")
  /\ loop' = [loop EXCEPT
       !.duty_cycle = loop.subdiv,
       !.at = "test",
       !.running = (result # "r_stop"),
       !.delay = IF result = "grain" THEN NewGrain ELSE loop.delay]
  /\ UNCHANGED ctl

InitLoop(subdiv) ==
  /\ loop = thread_loop(subdiv)
  /\ ctl = [pc |-> "idle", last |-> "none", n |-> 0]
  /\ svc_calls = 0
  /\ svc_stopped = FALSE

-----------------------------------------------------------------------------
(* operator[] of basic and anon::basic, each with a mutable and a const     *)
(* overload.  ix is the call: the store and overload called, the index, the *)
(* number of stack frames the call has open, and what came of it.           *)

Stores == {"typed", "anon"}
Overloads == {"mutable", "const"}

\* The indices tried: every slot of the largest store and one past it.
IndexArgs == 0 .. (MaxStride * MaxRows)

\* The first index out of range: n_elements, or storage_size.
Extent(store) == IF store = "typed" THEN n_elements ELSE anon.storage_size

NoIndex ==
  [store |-> "typed", overload |-> "mutable", i |-> 0, depth |-> 0,
   st |-> "idle", val |-> npos]

\* operator[](i) is called on a store through one of its overloads.
IndexCall(store, overload, i) ==
  /\ ix.st \in {"idle", "returned", "threw"}
  /\ ix' = [store |-> store, overload |-> overload, i |-> i, depth |-> 1,
            st |-> "called", val |-> npos]

\* The mutable overload: throws std::out_of_range, or returns ring[i].
IndexMutable ==
  /\ ix.st = "called"
  /\ ix.overload = "mutable"
  /\ ix' = IF ix.i >= Extent(ix.store)
             THEN [ix EXCEPT !.st = "threw", !.depth = 0]
             ELSE [ix EXCEPT !.st = "returned", !.depth = 0, !.val = ix.i]

\* The const overload: return (*this)[i], where *this is const, so the
\* overload called is the const one again.  A build that makes the call
\* opens another frame until the stack is used up; a build that turns the
\* call in tail position into a jump goes round in place.
IndexConst ==
  /\ ix.st = "called"
  /\ ix.overload = "const"
  /\ \/ ix' = IF ix.depth < MaxDepth
                 THEN [ix EXCEPT !.depth = ix.depth + 1]
                 ELSE [ix EXCEPT !.st = "overflow"]
     \/ ix' = [ix EXCEPT !.st = "spinning"]

InitIndex == ix = NoIndex

\* No get() has returned a slot yet: n is the highest write number seen in
\* the slot last returned, at the position (lap, read_at) it was returned
\* from, raced whether a returned slot was being populated at the time.
NoGot == [n |-> -1, at |-> -1, raced |-> FALSE]

InitGot == got = [r \in Readers |-> NoGot]

\* The objects a specification does not drive, as constructed.
InitRest == InitIndex /\ InitQueue /\ InitLoop(1) /\ wraps = 0 /\ InitGot

-----------------------------------------------------------------------------
(* Construction *)

\* basic(): the storage is zero-filled, nothing written; lappable(): lap_ 0,
\* the mutex free.  Cursors start at read_at 0, lap 0, error none.
InitBuffer ==
  /\ ring = [i \in Slots |-> Whole(0)]
  /\ write_at = 0
  /\ has_data = FALSE
  /\ lap_ = 0
  /\ mux = NoThread
  /\ wpc = [w \in Writers |-> "idle"]
  /\ was = [w \in Writers |-> npos]
  /\ p = [w \in Writers |-> 0]
  /\ val = [w \in Writers |-> 0]
  /\ issued = 0
  /\ rpc = [r \in Readers |-> "idle"]
  /\ read_at = [r \in Readers |-> 0]
  /\ lap = [r \in Readers |-> 0]
  /\ errno_ = [r \in Readers |-> "none"]
  /\ ref = [r \in Readers |-> <<>>]
  /\ consumed = [r \in Readers |-> 0]
  /\ kept = [r \in Readers |-> TRUE]
  /\ hist = <<>>
  /\ seen_empty = [r \in Readers |-> -1]
  /\ pre = [w \in Writers |-> [wa |-> 0, lw |-> 0]]
  /\ fresh = [w \in Writers |-> 0]
  /\ ret = [r \in Readers |-> NoRet]
  /\ flocal = [r \in Readers |-> NoFind]

-----------------------------------------------------------------------------
(* Threads running concurrently: one write cursor, one read cursor.  The    *)
(* history variables consumed and kept follow the read cursor's polls.      *)

\* The anon::basic object as constructed with the given geometry.
InitAnon(stride, n_rows) ==
  /\ anon = anon_basic(stride, n_rows)
  /\ anon_ret = NoRet
  /\ anon_n = 0
  /\ anon_lap = 0
  /\ anon_cur = anon_read

Init ==
  /\ InitBuffer
  /\ InitRest
  /\ InitAnon(1, 1)
  /\ wcur = {"w1"}
  /\ rcur = {"r1"}

\* The last poll of r reported is_empty and a write was committed since.
WroteSinceEmpty(r) == seen_empty[r] >= 0 /\ Committed > seen_empty[r]

\* A poll of r (the body of peek or get) as the history sees it: seen_empty
\* is the number of writes committed if the poll reports is_empty, -2 if it
\* does not and is the first poll after an is_empty and a write, else -1.
PollSeen(r) ==
  /\ kept' = [kept EXCEPT ![r] = kept[r] /\ Committed - consumed[r] <= n_elements]
  /\ consumed' = [consumed EXCEPT
                    ![r] = IF rpc[r] = "get_cs" /\ ref'[r] # <<>>
                             THEN consumed[r] + 1 ELSE consumed[r]]
  /\ seen_empty' = [seen_empty EXCEPT
                      ![r] = IF errno_'[r] = "is_empty" THEN Committed
                             ELSE IF WroteSinceEmpty(r) THEN -2 ELSE -1]
  /\ UNCHANGED <<hist, pre, fresh, opvars, anonvars, extvars>>

\* A put() or ptr() call of w begins: the write position it finds.
CallSeen(w) ==
  /\ pre' = [pre EXCEPT ![w] = [wa |-> write_at, lw |-> lap_]]
  /\ UNCHANGED <<consumed, kept, hist, seen_empty, fresh,
                 opvars, anonvars, extvars>>

\* ptr() of w returns a slot.
PtrSeen(w) ==
  /\ fresh' = [fresh EXCEPT ![w] = IF fresh[w] = 0 THEN 1 ELSE 2]
  /\ UNCHANGED <<consumed, kept, hist, seen_empty, pre,
                 opvars, anonvars, extvars>>

\* next() has run: the slots ptr() returned earlier are no longer current.
NextSeen ==
  /\ fresh' = [w \in Writers |-> 0]
  /\ UNCHANGED <<consumed, kept, hist, seen_empty, pre,
                 opvars, anonvars, extvars>>

\* A step that the histories do not record.
Unseen == UNCHANGED <<obsvars, opvars, anonvars, extvars>>

WPut(w) == CallPut(w) /\ CallSeen(w)
WPutWas(w) == PutWas(w) /\ Unseen
WPtr(w) == CallPtr(w) /\ CallSeen(w)
WPtrLock(w) == PtrLock(w) /\ Unseen
WPtrBody(w) == PtrBody(w) /\ PtrSeen(w)
WFillLo(w) == FillLo(w) /\ Unseen
WFillHi(w) == FillHi(w) /\ Unseen
WReadyLock(w) == ReadyLock(w) /\ Unseen
WReadyNext(w) == ReadyNext(w) /\ NextSeen
WReadyLap(w) == ReadyLap(w) /\ Unseen
RPeek(r) == CallPeek(r) /\ Unseen
RGet(r) == CallGet(r) /\ Unseen
RLock(r) == ReadLock(r) /\ Unseen
RPeekBody(r) == PeekBody(r) /\ PollSeen(r)
RGetBody(r) == GetBody(r) /\ PollSeen(r)
RDone(r) == ReadDone(r) /\ Unseen

Next ==
  \/ \E w \in Writers :
       \/ WPut(w) \/ WPutWas(w) \/ WPtr(w) \/ WPtrLock(w) \/ WPtrBody(w)
       \/ WFillLo(w) \/ WFillHi(w)
       \/ WReadyLock(w) \/ WReadyNext(w) \/ WReadyLap(w)
  \/ \E r \in Readers :
       \/ RPeek(r) \/ RGet(r) \/ RLock(r) \/ RPeekBody(r) \/ RGetBody(r)
       \/ RDone(r)

Spec == Init /\ [][Next]_vars

-----------------------------------------------------------------------------
(* One thread driving one write cursor and one read cursor with put() and   *)
(* get(): a call starts only when no other call is in progress, and hist    *)
(* records every call as it returns.                                        *)

AllIdle ==
  /\ \A w \in Writers : wpc[w] = "idle"
  /\ \A r \in Readers : rpc[r] = "idle"

\* put() returned: its value, and the index it returned.
PutSeen(w) ==
  [op |-> "put", err |-> "none", idx |-> was[w], val |-> Whole(val[w]),
   pos |-> 0]

\* get() returned: the error left in the cursor, the slot returned and its
\* content at that moment, and the position the cursor is left at.
GetSeen(r) ==
  [op |-> "get", err |-> errno_'[r],
   idx |-> IF ref'[r] = <<>> THEN npos ELSE ref'[r][1],
   val |-> IF ref'[r] = <<>> THEN Whole(0) ELSE ring[ref'[r][1]],
   pos |-> lap'[r] * n_elements + read_at'[r]]

SPut(w) == AllIdle /\ Len(hist) < MaxCalls /\ CallPut(w) /\ CallSeen(w)
SReadyLap(w) ==
  /\ ReadyLap(w)
  /\ hist' = Append(hist, PutSeen(w))
  /\ UNCHANGED <<consumed, kept, seen_empty, pre, fresh,
                 opvars, anonvars, extvars>>
SGet(r) == AllIdle /\ Len(hist) < MaxCalls /\ CallGet(r) /\ Unseen
SGetBody(r) ==
  /\ GetBody(r)
  /\ hist' = Append(hist, GetSeen(r))
  /\ UNCHANGED <<consumed, kept, seen_empty, pre, fresh,
                 opvars, anonvars, extvars>>

NextSeq ==
  \/ \E w \in Writers :
       \/ SPut(w) \/ WPutWas(w) \/ WPtrLock(w) \/ WPtrBody(w)
       \/ WFillLo(w) \/ WFillHi(w)
       \/ WReadyLock(w) \/ WReadyNext(w) \/ SReadyLap(w)
  \/ \E r \in Readers :
       \/ SGet(r) \/ RLock(r) \/ SGetBody(r) \/ RDone(r)

SpecSeq == Init /\ [][NextSeq]_vars

-----------------------------------------------------------------------------
(* Two write cursors on one buffer, each driven by its own thread, calling  *)
(* put().                                                                   *)

InitMW ==
  /\ InitBuffer
  /\ InitRest
  /\ InitAnon(1, 1)
  /\ wcur = {"w1", "w2"}
  /\ rcur = {}

MPut(w) == issued < MaxPutsMW /\ CallPut(w) /\ CallSeen(w)

NextMW ==
  \E w \in Writers :
    \/ MPut(w) \/ WPutWas(w) \/ WPtrLock(w) \/ WPtrBody(w)
    \/ WFillLo(w) \/ WFillHi(w)
    \/ WReadyLock(w) \/ WReadyNext(w) \/ WReadyLap(w)

SpecMW == InitMW /\ [][NextMW]_vars

-----------------------------------------------------------------------------
(* One write cursor driven by its own thread, which may call ptr() again   *)
(* before it fills the slot, and a second thread that calls oldest(),       *)
(* last() and find() on the buffer.                                         *)

Quiet == UNCHANGED <<obsvars, anonvars, extvars>>

OPut(w) == issued < MaxOpsWrites /\ CallPut(w) /\ CallSeen(w)
OPtr(w) == issued < MaxOpsWrites /\ CallPtr(w) /\ CallSeen(w)
OPtrAgain(w) == PtrAgain(w) /\ Quiet
OCallOldest(r) == CallOldest(r) /\ Quiet
OOldestLock(r) == OldestLock(r) /\ Quiet
OOldest(r) == oldest(r) /\ Quiet
OLast(r) == last(r) /\ Quiet
OCallFind(r, pred, v) == CallFind(r, pred, v) /\ Quiet
OFindLap(r) == FindLap(r) /\ Quiet
OFindUpper(r) == FindUpper(r) /\ Quiet
OFindScan(r) == FindScan(r) /\ Quiet

NextOps ==
  \/ \E w \in Writers :
       \/ OPut(w) \/ WPutWas(w) \/ OPtr(w) \/ WPtrLock(w) \/ WPtrBody(w)
       \/ OPtrAgain(w) \/ WFillLo(w) \/ WFillHi(w)
       \/ WReadyLock(w) \/ WReadyNext(w) \/ WReadyLap(w)
  \/ \E r \in Readers :
       \/ OCallOldest(r) \/ OOldestLock(r) \/ OOldest(r)
       \/ OLast(r)
       \/ \E pred \in Predicates, v \in FindValues : OCallFind(r, pred, v)
       \/ OFindLap(r) \/ OFindUpper(r) \/ OFindScan(r)

SpecOps == Init /\ [][NextOps]_vars

-----------------------------------------------------------------------------
(* One write cursor calling put() and one read cursor whose thread calls    *)
(* peek(), get() and swap().                                                *)

XPut(w) == issued < MaxSwapWrites /\ CallPut(w) /\ CallSeen(w)
XPeekBody(r) == PeekBody(r) /\ Unseen
XGetBody(r) == GetBody(r) /\ Unseen
XSwap(r, idx) == swap(r, idx) /\ Quiet

NextSwap ==
  \/ \E w \in Writers :
       \/ XPut(w) \/ WPutWas(w) \/ WPtrLock(w) \/ WPtrBody(w)
       \/ WFillLo(w) \/ WFillHi(w)
       \/ WReadyLock(w) \/ WReadyNext(w) \/ WReadyLap(w)
  \/ \E r \in Readers :
       \/ RPeek(r) \/ RGet(r) \/ RLock(r) \/ XPeekBody(r) \/ XGetBody(r)
       \/ RDone(r)
       \/ \E idx \in SwapArgs : XSwap(r, idx)

SpecSwap == Init /\ [][NextSwap]_vars

-----------------------------------------------------------------------------
(* Two read cursors on one buffer calling peek(), get() and swap() between *)
(* the writes of a write cursor, one call at a time.                        *)

InitPair ==
  /\ InitBuffer
  /\ InitRest
  /\ InitAnon(1, 1)
  /\ wcur = {"w1"}
  /\ rcur = Readers

\* swap() arguments: a slot and the first index past the storage.
PairSwapArgs == {2, n_elements}

PPut(w) == AllIdle /\ issued < MaxPairWrites /\ CallPut(w) /\ CallSeen(w)
PPeek(r) == AllIdle /\ CallPeek(r) /\ Unseen
PGet(r) == AllIdle /\ CallGet(r) /\ Unseen
PSwap(r, idx) == AllIdle /\ swap(r, idx) /\ Quiet

NextPair ==
  \/ \E w \in Writers :
       \/ PPut(w) \/ WPutWas(w) \/ WPtrLock(w) \/ WPtrBody(w)
       \/ WFillLo(w) \/ WFillHi(w)
       \/ WReadyLock(w) \/ WReadyNext(w) \/ WReadyLap(w)
  \/ \E r \in Readers :
       \/ PPeek(r) \/ PGet(r) \/ RLock(r) \/ XPeekBody(r) \/ XGetBody(r)
       \/ RDone(r)
       \/ \E idx \in PairSwapArgs : PSwap(r, idx)

SpecPair == InitPair /\ [][NextPair]_vars

-----------------------------------------------------------------------------
(* An anon::basic object driven by one thread.                              *)

InitAnonBasic ==
  /\ InitBuffer
  /\ InitRest
  /\ wcur = {}
  /\ rcur = {}
  /\ \E stride \in 1 .. MaxStride, n_rows \in 1 .. MaxRows :
       InitAnon(stride, n_rows)

\* The rest of the state, which a call on the anon::basic part leaves alone.
apart == <<typedvars, anon_lap, anon_cur, extvars>>

AWrite(data, len) == AnonWrite(data, len) /\ UNCHANGED apart
ANext == AnonNext /\ UNCHANGED apart
AAt == AnonAt /\ UNCHANGED apart
ALast == AnonLast /\ UNCHANGED apart

NextAnon ==
  \/ \E data \in Sources, len \in 1 .. (MaxStride + 1) : AWrite(data, len)
  \/ ANext \/ AAt \/ ALast

SpecAnon == InitAnonBasic /\ [][NextAnon]_vars

-----------------------------------------------------------------------------
(* An anon::lappable object with a write cursor and a read cursor, driven   *)
(* by one thread.  A process that aborted makes no further call.            *)

Alive == "aborted" \in DOMAIN anon_ret => ~anon_ret.aborted

LapWrite(data, len) ==
  Alive /\ AnonWrite(data, len) /\ UNCHANGED apart
LapPut(data, len) ==
  /\ Alive
  /\ anon_n < MaxAnonWrites
  /\ AnonPut(data, len)
  /\ UNCHANGED <<typedvars, extvars>>
LapPeek == Alive /\ AnonPeek /\ UNCHANGED <<typedvars, extvars>>
LapGet == Alive /\ AnonGet /\ UNCHANGED <<typedvars, extvars>>
LapOldest == Alive /\ AnonOldest /\ UNCHANGED <<typedvars, extvars>>

NextAnonLap ==
  \/ \E data \in Sources, len \in 1 .. (MaxStride + 1) : LapWrite(data, len)
  \/ \E data \in Sources, len \in 1 .. (MaxStride + 1) : LapPut(data, len)
  \/ LapPeek \/ LapGet \/ LapOldest

SpecAnonLap == InitAnonBasic /\ [][NextAnonLap]_vars

-----------------------------------------------------------------------------
(* The typed buffer and an anon::lappable of the same number of rows, given *)
(* the same calls one at a time: each call on the typed buffer's cursors    *)
(* is made on the anon object's cursors as well.                            *)

InitEq ==
  /\ InitBuffer
  /\ InitRest
  /\ wcur = {"w1"}
  /\ rcur = {"r1"}
  /\ \E stride \in 1 .. MaxStride : InitAnon(stride, n_elements)

Typed == UNCHANGED <<obsvars, opvars, extvars>>

EPut(w) == AllIdle /\ issued < MaxEqWrites /\ CallPut(w) /\ Unseen
EPtr(w) == AllIdle /\ issued < MaxEqWrites /\ CallPtr(w) /\ Unseen
EReadyLap(w) ==
  /\ ReadyLap(w)
  /\ IF was[w] = npos THEN AnonReady ELSE AnonPut("bytes", anon.stride)
  /\ Typed
EPeek(r) == AllIdle /\ CallPeek(r) /\ Unseen
EGet(r) == AllIdle /\ CallGet(r) /\ Unseen
EPeekBody(r) == PeekBody(r) /\ AnonPeek /\ Typed
EGetBody(r) == GetBody(r) /\ AnonGet /\ Typed

NextEq ==
  \/ \E w \in Writers :
       \/ EPut(w) \/ EPtr(w) \/ WPutWas(w) \/ WPtrLock(w) \/ WPtrBody(w)
       \/ WFillLo(w) \/ WFillHi(w)
       \/ WReadyLock(w) \/ WReadyNext(w) \/ EReadyLap(w)
  \/ \E r \in Readers :
       \/ EPeek(r) \/ EGet(r) \/ RLock(r) \/ EPeekBody(r) \/ EGetBody(r)
       \/ RDone(r)

SpecEq == InitEq /\ [][NextEq]_vars

-----------------------------------------------------------------------------
(* operator[] called on a typed store and on an anon::basic store, one call *)
(* after the other; a call that can take its next step takes it.            *)

InitStores ==
  /\ InitBuffer
  /\ InitRest
  /\ wcur = {}
  /\ rcur = {}
  /\ \E stride \in 1 .. MaxStride, n_rows \in 1 .. MaxRows :
       InitAnon(stride, n_rows)

Stored == UNCHANGED <<typedvars, anonvars, mqvars, tlvars, wraps, got>>

ICall(store, overload, i) == IndexCall(store, overload, i) /\ Stored
IMutable == IndexMutable /\ Stored
IConst == IndexConst /\ Stored

NextIndex ==
  \/ \E store \in Stores, overload \in Overloads, i \in IndexArgs :
       ICall(store, overload, i)
  \/ IMutable
  \/ IConst

SpecIndex ==
  InitStores /\ [][NextIndex]_vars /\ WF_vars(IMutable) /\ WF_vars(IConst)

-----------------------------------------------------------------------------
(* Two producers and two consumers on one msg_queue, each on its own        *)
(* thread.                                                                  *)

InitMQ ==
  /\ InitBuffer
  /\ InitAnon(1, 1)
  /\ InitRest
  /\ wcur = {}
  /\ rcur = {}

Elsewhere == UNCHANGED <<typedvars, anonvars, ix, tlvars, wraps, got>>

QPush(t) == CallPush(t) /\ Elsewhere
QTakeLock(t) == QLock(t) /\ Elsewhere
QPushBody(t) == PushBody(t) /\ Elsewhere
QPushNotify(t) == PushNotify(t) /\ Elsewhere
QPop(c, op) == CallPop(c, op) /\ Elsewhere
QPopTest(c) == PopTest(c) /\ Elsewhere
QSpurious(c) == Spurious(c) /\ Elsewhere
QPopIfBody(c) == PopIfBody(c) /\ Elsewhere
QUntilTest(c) == UntilTest(c) /\ Elsewhere
QUntilExpire(c) == UntilExpire(c) /\ Elsewhere
QUntilWoken(c) == UntilWoken(c) /\ Elsewhere
QUntilTimeout(c) == UntilTimeout(c) /\ Elsewhere

NextMQ ==
  \/ \E t \in Producers :
       QPush(t) \/ QPushBody(t) \/ QPushNotify(t)
  \/ \E t \in Producers \cup Consumers : QTakeLock(t)
  \/ \E c \in Consumers :
       \/ \E op \in {"pop", "pop_if", "pop_until"} : QPop(c, op)
       \/ QPopTest(c) \/ QSpurious(c) \/ QPopIfBody(c)
       \/ QUntilTest(c) \/ QUntilExpire(c) \/ QUntilWoken(c)
       \/ QUntilTimeout(c)

SpecMQ == InitMQ /\ [][NextMQ]_vars

\* The same under a fair scheduler: a thread that can take the next step of
\* its call takes it, a timed wait runs out, and a thread that finds the
\* mutex free again and again gets it.  Calls begin, and waits end
\* spuriously, only if they happen to.
ProducerRuns(t) == QPushBody(t) \/ QPushNotify(t)
ConsumerRuns(c) ==
  \/ QPopTest(c) \/ QPopIfBody(c) \/ QUntilTest(c)
  \/ QUntilExpire(c) \/ QUntilWoken(c) \/ QUntilTimeout(c)

FairQueue ==
  /\ \A t \in Producers : WF_vars(ProducerRuns(t))
  /\ \A c \in Consumers : WF_vars(ConsumerRuns(c))
  /\ \A t \in Producers \cup Consumers : SF_vars(QTakeLock(t))

SpecMQLive == InitMQ /\ [][NextMQ]_vars /\ FairQueue

-----------------------------------------------------------------------------
(* A thread_loop, the thread that owns it calling start() and stop(), and   *)
(* the thread start() makes.                                                *)

InitThreadLoop ==
  /\ InitBuffer
  /\ InitAnon(1, 1)
  /\ InitIndex
  /\ InitQueue
  /\ wraps = 0
  /\ InitGot
  /\ wcur = {}
  /\ rcur = {}
  /\ \E subdiv \in 1 .. MaxSubdiv : InitLoop(subdiv)

Beside == UNCHANGED <<typedvars, anonvars, ix, mqvars, wraps, got>>

TStart == Start /\ Beside
TStopSet == StopSet /\ Beside
TStopJoin == StopJoin /\ Beside
TLoopTest == LoopTest /\ Beside
TLoopIdle == LoopIdle /\ Beside
TLoopCall(result) == LoopCall(result) /\ Beside

NextLoop ==
  \/ TStart \/ TStopSet \/ TStopJoin
  \/ TLoopTest \/ TLoopIdle
  \/ \E result \in Results : TLoopCall(result)

SpecLoop == InitThreadLoop /\ [][NextLoop]_vars

-----------------------------------------------------------------------------
(* A lappable written through its write cursor and through the write() and  *)
(* next() it inherits from basic, and read through a read cursor, one call  *)
(* at a time.  wraps counts the times write_at went back to 0.              *)

\* The step's effect on the count of wraps.
Counted ==
  /\ wraps' = IF write_at' = 0 /\ write_at # 0 THEN wraps + 1 ELSE wraps
  /\ UNCHANGED <<obsvars, opvars, anonvars, ix, mqvars, tlvars, got>>

BPut(w) == AllIdle /\ issued < MaxBaseWrites /\ CallPut(w) /\ CallSeen(w)
BReadyNext(w) == ReadyNext(w) /\ Counted
BNext(w) == AllIdle /\ issued < MaxBaseWrites /\ BasicNext(w) /\ Counted
BWrite(w) == AllIdle /\ issued < MaxBaseWrites /\ BasicWrite(w) /\ Counted
BGet(r) == AllIdle /\ CallGet(r) /\ Unseen

NextBase ==
  \/ \E w \in Writers :
       \/ BPut(w) \/ WPutWas(w) \/ WPtrLock(w) \/ WPtrBody(w)
       \/ WFillLo(w) \/ WFillHi(w)
       \/ WReadyLock(w) \/ BReadyNext(w) \/ WReadyLap(w)
       \/ BNext(w) \/ BWrite(w)
  \/ \E r \in Readers :
       \/ BGet(r) \/ RLock(r) \/ XGetBody(r) \/ RDone(r)

SpecBase == Init /\ [][NextBase]_vars

-----------------------------------------------------------------------------
(* Two write cursors and a read cursor, each on its own thread, under a     *)
(* fair scheduler: a thread that can take a step eventually takes it, and a *)
(* thread that finds the mutex free again and again eventually gets it.     *)

InitLive ==
  /\ InitBuffer
  /\ InitRest
  /\ InitAnon(1, 1)
  /\ wcur = Writers
  /\ rcur = {"r1"}

LPut(w) == issued < MaxLiveWrites /\ CallPut(w) /\ CallSeen(w)
LPtr(w) == issued < MaxLiveWrites /\ CallPtr(w) /\ CallSeen(w)

NextLive ==
  \/ \E w \in Writers :
       \/ LPut(w) \/ WPutWas(w) \/ LPtr(w) \/ WPtrLock(w) \/ WPtrBody(w)
       \/ WFillLo(w) \/ WFillHi(w)
       \/ WReadyLock(w) \/ WReadyNext(w) \/ WReadyLap(w)
  \/ \E r \in Readers :
       \/ RPeek(r) \/ RGet(r) \/ RLock(r) \/ XPeekBody(r) \/ XGetBody(r)
       \/ RDone(r)
       \/ OCallOldest(r) \/ OOldestLock(r) \/ OOldest(r)

\* The steps of a call that need nothing but the processor.
WriterRuns(w) ==
  \/ WPutWas(w) \/ WPtrBody(w) \/ WFillLo(w) \/ WFillHi(w)
  \/ WReadyNext(w) \/ WReadyLap(w)
ReaderRuns(r) == XPeekBody(r) \/ XGetBody(r) \/ OOldest(r)

\* The steps that take the mutex.
WriterLocks(w) == WPtrLock(w) \/ WReadyLock(w)
ReaderLocks(r) == RLock(r) \/ OOldestLock(r)

FairScheduling ==
  /\ \A w \in Writers : WF_vars(WriterRuns(w)) /\ SF_vars(WriterLocks(w))
  /\ \A r \in Readers : WF_vars(ReaderRuns(r)) /\ SF_vars(ReaderLocks(r))

SpecLive == InitLive /\ [][NextLive]_vars /\ FairScheduling

-----------------------------------------------------------------------------
(* Claims about the concurrent buffer (Spec).                               *)

\* The write sequence number a read cursor's (lap, read_at) stands for.
SeqOf(lr, ra) == lr * n_elements + ra

\* C1: whenever peek() or get() returns a slot, that slot at that moment
\* holds, whole, the element whose write sequence number is
\* lap_r * n_elements + read_at (the cursor's position before get advances).
C1_ReturnedSlotHoldsNextElement ==
  [][\A r \in Readers :
       (rpc[r] \in {"peek_cs", "get_cs"} /\ ref'[r] # <<>>)
         => ring'[ref'[r][1]] = Whole(Payload(SeqOf(lap[r], read_at[r])))]_vars

\* The step in which a peek() or get() of r returns.
Returns(r) == rpc[r] \in {"peek_cs", "get_cs"} /\ rpc'[r] # rpc[r]

\* C2: a reader that at every poll so far had at most n_elements committed
\* elements left unconsumed never observes was_lapped, is handed the next
\* unconsumed element whenever one is committed, and observes is_empty when
\* it has caught up.
C2_KeptUpReaderGetsEveryElement ==
  [][\A r \in Readers :
       (Returns(r) /\ kept'[r]) =>
          /\ errno_'[r] # "was_lapped"
          /\ Committed > consumed[r] =>
               /\ ref'[r] # <<>>
               /\ ring'[ref'[r][1]] = Whole(Payload(consumed[r]))
          /\ Committed = consumed[r] => errno_'[r] = "is_empty"]_vars

\* The positions of a write cursor's call between ptr() returning the slot
\* and ready() completing.
Populating == {"fill_lo", "fill_hi", "ready_wait", "ready_next", "ready_lap"}

\* C8: no reader holds a slot returned by peek()/get() while a writer is
\* between ptr() and the completion of ready() on that same slot.
C8_NoSlotSharedWithWriter ==
  \A w \in Writers, r \in Readers :
    ~(wpc[w] \in Populating /\ rpc[r] = "using" /\ ref[r] = <<p[w]>>)

\* C9: after two put() calls, one from each of two write cursors, write_at
\* has advanced by two, and each call returned the index of a slot of its
\* own that holds its value.
C9_TwoPutsSerialize ==
  (issued = 2 /\ \A w \in Writers : wpc[w] = "idle" /\ val[w] # 0) =>
     /\ write_at = 2
     /\ was["w1"] # was["w2"]
     /\ \A w \in Writers : was[w] \in Slots /\ ring[was[w]] = Whole(val[w])

\* The positions whose next step reads or writes write_at, lap_ or has_data.
TouchesShared ==
  {"put_was", "ptr_cs", "ready_next", "ready_lap", "peek_cs", "get_cs"}

\* C10: a thread about to read or write (write_at, lap_, has_data) holds the
\* buffer's mutex.
C10_SharedStateUnderLock ==
  /\ \A w \in Writers : wpc[w] \in TouchesShared => mux = w
  /\ \A r \in Readers : rpc[r] \in TouchesShared => mux = r

\* C12: when a poll reported is_empty and the writer has committed at least
\* one write since, the reader's next peek() or get() does not report
\* is_empty.
C12_EmptyClearsAfterWrite ==
  [][\A r \in Readers :
       (Returns(r) /\ WroteSinceEmpty(r)) => errno_'[r] # "is_empty"]_vars

\* A poll that followed an is_empty poll and a committed write has returned
\* a slot; and one has reported was_lapped.
C12_Witness ==
  \E r \in Readers : seen_empty[r] = -2 /\ errno_[r] = "none" /\ ref[r] # <<>>

\* The step in which a put() of w returns.
PutReturns(w) == wpc[w] = "ready_lap" /\ wpc'[w] = "idle" /\ was[w] # npos

\* C15: when put(value) of the only writer returns, the slot at the write
\* position found at the call holds the value, that index is what put()
\* returns, write_at is one slot further (wrapped), lap_ is one more exactly
\* when write_at wrapped to 0, and has_data is set.
C15_PutStoresAdvancesReturns ==
  [][\A w \in Writers :
       PutReturns(w) =>
         /\ was[w] = pre[w].wa
         /\ ring'[was[w]] = Whole(val[w])
         /\ write_at' = (pre[w].wa + 1) % n_elements
         /\ lap_' = IF pre[w].wa = n_elements - 1
                      THEN pre[w].lw + 1 ELSE pre[w].lw
         /\ has_data']_vars

\* A put() has returned the last index of the storage and wrapped the write
\* position for the second time.
C15_Witness ==
  /\ wpc["w1"] = "idle"
  /\ was["w1"] = n_elements - 1
  /\ pre["w1"] = [wa |-> n_elements - 1, lw |-> 1]
  /\ ring[n_elements - 1] = Whole(val["w1"])
  /\ write_at = 0
  /\ lap_ = 2

-----------------------------------------------------------------------------
(* Claims about single-threaded runs of put() and get() (SpecSeq), stated   *)
(* on hist.                                                                 *)

IsPut(i) == hist[i].op = "put"
IsGet(i) == hist[i].op = "get"

\* Number of writes committed by the first i calls.
PutsUpTo(i) == Cardinality({j \in 1 .. i : IsPut(j)})

\* Write sequence number of the oldest element retained after W writes.
OldestSeq(W) == IF W <= n_elements THEN 0 ELSE W - n_elements

\* The reader's position after the first a calls (0 before its first call).
PosAfter(a) == IF a = 0 THEN 0 ELSE hist[a].pos

\* The reader makes no call between call a (its own, or the start of the run)
\* and its call b, while the writer commits b - a - 1 elements.
Pause(a, b) ==
  /\ a < b
  /\ a = 0 \/ IsGet(a)
  /\ IsGet(b)
  /\ \A j \in (a + 1) .. (b - 1) : IsPut(j)

\* Calls b .. g are all the reader's.
AllGets(b, g) == \A j \in b .. g : IsGet(j)

\* C3: when get() reports was_lapped the reader is left at the oldest element
\* retained, and a get() that follows with no write in between succeeds and
\* returns that element.
C3_LappedReaderRestartsAtOldest ==
  \A i \in 1 .. Len(hist) :
    (IsGet(i) /\ hist[i].err = "was_lapped") =>
       /\ hist[i].pos = OldestSeq(PutsUpTo(i))
       /\ (i < Len(hist) /\ IsGet(i + 1)) =>
            /\ hist[i + 1].err = "none"
            /\ hist[i + 1].val = Whole(Payload(OldestSeq(PutsUpTo(i))))

\* C4 (its last clause): when a reader that paused during k >= n_elements
\* writes is told was_lapped, its following read succeeds and returns the
\* element at the write position, written one lap before the current one.
C4_ReadAfterLapReturnsOldest ==
  \A a \in 0 .. Len(hist), b \in 1 .. Len(hist) :
    (/\ Pause(a, b)
     /\ b - a - 1 >= n_elements
     /\ hist[b].err = "was_lapped"
     /\ b < Len(hist)
     /\ IsGet(b + 1)) =>
       /\ hist[b + 1].err = "none"
       /\ hist[b + 1].idx = PutsUpTo(b) % n_elements
       /\ hist[b + 1].val = Whole(Payload(PutsUpTo(b) - n_elements))

\* What C5 promises of the reads b .. after a pause (a, b): none reports
\* was_lapped, and they return the elements from the reader's position on,
\* in write order, then is_empty.
ResumesInOrder(a, b) ==
  \A g \in b .. Len(hist) :
    AllGets(b, g) =>
      LET n == PosAfter(a) + (g - b)
      IN /\ hist[g].err # "was_lapped"
         /\ n < PutsUpTo(b) =>
              hist[g].err = "none" /\ hist[g].val = Whole(Payload(n))
         /\ n >= PutsUpTo(b) => hist[g].err = "is_empty"

\* C5 as claimed: after a pause during k writes, 1 <= k <= n_elements - 1,
\* the reader retrieves every element it had not read, in order, and never
\* observes was_lapped.
C5_ShortPauseLosesNothing ==
  \A a \in 0 .. Len(hist), b \in 1 .. Len(hist) :
    (Pause(a, b) /\ b - a - 1 \in 1 .. (n_elements - 1)) => ResumesInOrder(a, b)

\* C5 as amended: the same, provided that the elements left unread at the
\* pause and the k new ones together are at most n_elements.
C5_ShortPauseWithinCapacity ==
  \A a \in 0 .. Len(hist), b \in 1 .. Len(hist) :
    (/\ Pause(a, b)
     /\ b - a - 1 \in 1 .. (n_elements - 1)
     /\ PutsUpTo(b) - PosAfter(a) <= n_elements) => ResumesInOrder(a, b)

\* A pause of C5_ShortPauseWithinCapacity with elements left unread at the
\* pause, after which the reader has read up to the writer and seen is_empty.
C5_Witness ==
  \E a \in 1 .. Len(hist), b \in 1 .. Len(hist) :
    /\ Pause(a, b)
    /\ b - a - 1 \in 1 .. (n_elements - 1)
    /\ PutsUpTo(a) > PosAfter(a)
    /\ PutsUpTo(b) - PosAfter(a) = n_elements
    /\ AllGets(b, Len(hist))
    /\ hist[Len(hist)].err = "is_empty"

\* The run is N writes followed by at least one get().
Drain(N) ==
  /\ N < Len(hist)
  /\ \A j \in 1 .. N : IsPut(j)
  /\ AllGets(N + 1, Len(hist))

Min(x, y) == IF x <= y THEN x ELSE y

\* C6 as claimed: after N writes a fresh reader's gets return min(N, C)
\* elements, oldest first, then is_empty, and never was_lapped.
C6_DrainNeverLapped ==
  \A N \in 0 .. Len(hist) :
    Drain(N) =>
      \A j \in (N + 1) .. Len(hist) :
        /\ hist[j].err # "was_lapped"
        /\ j - N <= Min(N, n_elements) =>
             /\ hist[j].err = "none"
             /\ hist[j].val = Whole(Payload(OldestSeq(N) + (j - N - 1)))
        /\ j - N > Min(N, n_elements) => hist[j].err = "is_empty"

\* C6 as amended: for N <= C as claimed; for N > C the first get() reports
\* was_lapped, the next C return the C newest elements, oldest first, and
\* the gets after those report is_empty.
C6_DrainLappedOnceBeyondCapacity ==
  \A N \in 0 .. Len(hist) :
    Drain(N) =>
      LET skip == IF N > n_elements THEN 1 ELSE 0
      IN \A j \in (N + 1) .. Len(hist) :
           LET i == j - N - skip
           IN /\ hist[j].err = "was_lapped" <=> i = 0
              /\ (1 <= i /\ i <= Min(N, n_elements)) =>
                   /\ hist[j].err = "none"
                   /\ hist[j].val = Whole(Payload(OldestSeq(N) + (i - 1)))
              /\ i > Min(N, n_elements) => hist[j].err = "is_empty"

\* A drain of more than C writes that has reached is_empty.
C6_Witness ==
  \E N \in (n_elements + 1) .. Len(hist) :
    /\ Drain(N)
    /\ Len(hist) = N + n_elements + 2
    /\ hist[Len(hist)].err = "is_empty"

\* What a call showed: its error and the value written or read.
Shown(i) == [err |-> hist[i].err, val |-> hist[i].val.lo]
Outcomes == [i \in 1 .. Len(hist) |-> Shown(i)]
Calls == [i \in 1 .. Len(hist) |-> hist[i].op]

NoData == [err |-> "is_empty", val |-> 0]
WasLapped == [err |-> "was_lapped", val |-> 0]
Value(v) == [err |-> "none", val |-> v]

\* Capacity 4: the reader polls before and after each of the first four
\* writes, and twice after the fifth.
Scenario7 ==
  <<"get", "put", "get", "get", "put", "get", "get", "put", "get",
    "get", "put", "get", "put", "get", "get">>

\* C7 as claimed: the polls show empty, 10, empty, 20, empty, 30, empty, 40,
\* and after 50 is written was_lapped and then 20.
C7_ScenarioLappedAfterFifthWrite ==
  Calls = Scenario7 =>
    Outcomes = <<NoData, Value(10), Value(10), NoData, Value(20), Value(20),
                 NoData, Value(30), Value(30), NoData, Value(40), Value(40),
                 Value(50), WasLapped, Value(20)>>

\* C7 as amended: the reader has kept up, so after 50 is written its next
\* poll returns 50 and the one after that is_empty; was_lapped never shows.
C7_ScenarioReaderKeepsUp ==
  Calls = Scenario7 =>
    Outcomes = <<NoData, Value(10), Value(10), NoData, Value(20), Value(20),
                 NoData, Value(30), Value(30), NoData, Value(40), Value(40),
                 Value(50), Value(50), NoData>>

\* The scenario of C7 has run to its end.
C7_Witness == Calls = Scenario7

-----------------------------------------------------------------------------
(* Claims about fair runs of two writers and a reader (SpecLive).           *)

\* The thread is inside a call: waiting for the mutex or running under it,
\* or, for a writer, between ptr() and the return of ready().
WriterInCall(w) == wpc[w] # "idle"
ReaderInCall(r) ==
  rpc[r] \in {"peek_wait", "get_wait", "peek_cs", "get_cs",
              "oldest_wait", "oldest_cs"}

\* The positions at which a thread asks for the mutex.
LockWaits == {"ptr_wait", "ready_wait", "peek_wait", "get_wait", "oldest_wait"}

\* No thread asks for the mutex while it holds it.
NoRelock ==
  /\ \A w \in Writers : wpc[w] \in LockWaits => mux # w
  /\ \A r \in Readers : rpc[r] \in LockWaits => mux # r

-----------------------------------------------------------------------------
(* Claims about a reader that polls and swaps while a writer puts           *)
(* (SpecSwap).                                                              *)

\* The reader has nothing to read: the store was never written, or the
\* cursor stands at the write position in the writer's lap.
CaughtUp(r) == ~has_data \/ (read_at[r] = write_at /\ lap[r] = lap_)

\* C13: peek() and get() report is_empty exactly when the store has never
\* been written or read_at = write_at and lap_r = lap_w, and then they
\* return no slot and leave read_at, lap_r, the storage, write_at, has_data
\* and lap_ as they were.
C13_EmptyExactlyWhenCaughtUp ==
  [][\A r \in Readers :
       Returns(r) =>
         /\ errno_'[r] = "is_empty" <=> CaughtUp(r)
         /\ errno_'[r] = "is_empty" =>
              /\ ref'[r] = <<>>
              /\ read_at'[r] = read_at[r]
              /\ lap'[r] = lap[r]
              /\ UNCHANGED <<ring, write_at, has_data, lap_>>]_vars

\* A reader has been told is_empty on a store that has wrapped, away from
\* the start of the storage.
C13_Witness ==
  \E r \in Readers :
    /\ errno_[r] = "is_empty"
    /\ rpc[r] = "idle"
    /\ lap_ >= 1
    /\ read_at[r] = write_at /\ read_at[r] # 0
    /\ lap[r] = lap_

\* C14: a peek() or get() that returns data returns the slot at read_at;
\* peek() leaves read_at and lap_r as they were (so peeks repeated with no
\* write in between return the same slot, and so does a get() in that
\* state), and get() then advances read_at by one slot, wrapping, and
\* increments lap_r exactly when read_at wraps to 0.
C14_PeekKeepsGetAdvances ==
  [][\A r \in Readers :
       (Returns(r) /\ ref'[r] # <<>>) =>
         /\ ref'[r] = <<read_at[r]>>
         /\ rpc[r] = "peek_cs" =>
              read_at'[r] = read_at[r] /\ lap'[r] = lap[r]
         /\ rpc[r] = "get_cs" =>
              /\ read_at'[r] = (read_at[r] + 1) % n_elements
              /\ lap'[r] = IF read_at[r] = n_elements - 1
                             THEN lap[r] + 1 ELSE lap[r]]_vars

\* A get() has returned the last slot of the storage and wrapped the cursor
\* into its next lap.
C14_Witness ==
  \E r \in Readers :
    /\ rpc[r] = "using"
    /\ errno_[r] = "none"
    /\ ref[r] = <<n_elements - 1>>
    /\ read_at[r] = 0
    /\ lap[r] = 1

\* The step in which a swap() call of r returns or throws.
SwapReturns(r) ==
  /\ rpc[r] = "idle" /\ rpc'[r] = "idle"
  /\ ret'[r].op = "swap"
  /\ ret'[r] # ret[r] \/ read_at'[r] # read_at[r]

\* C20: swap(i) with i < n_elements sets read_at to i and returns the
\* read_at it replaced; swap(i) with i >= n_elements throws and leaves
\* read_at as it was; either way lap_r, the cursor's last error and the
\* buffer's shared state are unchanged.
C20_SwapMovesOrThrows ==
  [][\A r \in Readers :
       SwapReturns(r) =>
         LET i == ret'[r].arg
         IN /\ i < n_elements =>
                 /\ ~ret'[r].threw
                 /\ ret'[r].val = read_at[r]
                 /\ read_at'[r] = i
            /\ i >= n_elements =>
                 /\ ret'[r].threw
                 /\ read_at'[r] = read_at[r]
            /\ lap'[r] = lap[r]
            /\ errno_'[r] = errno_[r]
            /\ UNCHANGED bufvars]_vars

\* A reader that was told was_lapped, in its second lap, has swapped to
\* another index: lap_r and the error are still there.
C20_Witness ==
  \E r \in Readers :
    /\ ret[r].op = "swap" /\ ~ret[r].threw
    /\ read_at[r] = ret[r].arg
    /\ ret[r].val # ret[r].arg
    /\ lap[r] = 1
    /\ errno_[r] = "was_lapped"

-----------------------------------------------------------------------------
(* Claims about ptr(), oldest(), last() and find() with a writer at work    *)
(* (SpecOps).                                                               *)

\* The step in which a ptr() of w returns.
PtrReturns(w) == wpc[w] = "ptr_cs" /\ wpc'[w] = "fill_lo"

\* C16: a ptr() that returns when an earlier ptr() of the cursor has
\* returned and no ready()/next()/put() has advanced the write position
\* since returns the same slot as that earlier call.
C16_PtrRepeatsSlot ==
  [][\A w \in Writers :
       (PtrReturns(w) /\ fresh[w] >= 1) => p'[w] = p[w]]_vars

\* ptr() has returned at least twice since the last advance, on a store
\* that has wrapped, and the slot is the one at the write position.
C16_Witness ==
  \E w \in Writers :
    /\ fresh[w] = 2
    /\ wpc[w] = "fill_lo"
    /\ lap_ >= 1
    /\ p[w] = write_at /\ p[w] # 0

\* The step in which an oldest() call of r returns.
OldestReturns(r) == rpc[r] = "oldest_cs" /\ rpc'[r] = "idle"

\* C17: oldest() returns none exactly when nothing has been committed, 0
\* while lap_ is 0, and write_at otherwise; and the slot at the index it
\* returns holds, whole, the least recently committed element that the
\* buffer still retains.
C17_OldestIsLeastRecentRetained ==
  [][\A r \in Readers :
       OldestReturns(r) =>
         LET i == ret'[r].val
         IN /\ i = npos <=> ~has_data
            /\ (has_data /\ lap_ = 0) => i = 0
            /\ (has_data /\ lap_ > 0) => i = write_at
            /\ i # npos => ring[i] = Whole(Payload(OldestSeq(Committed)))]_vars

-----------------------------------------------------------------------------
(* Claims about the anon::basic object (SpecAnon).                          *)

\* The byte offset of the row that the n-th write (n = 1, 2, ...) went to.
RowOfWrite(n) == ((n - 1) % anon.n_rows) * anon.stride

\* C18: last() returns none exactly when nothing has been written, and
\* after one or more writes the row of the most recent one, the row that
\* cyclically precedes write_at, whatever the stride and the row count.
C18_LastIsMostRecentWrite ==
  anon_ret.op = "last" =>
    /\ anon_ret.val = npos <=> anon_n = 0
    /\ anon_n >= 1 => anon_ret.val = RowOfWrite(anon_n)

\* The step in which a find() call of r returns.
FindReturns(r) == rpc[r] = "find_scan" /\ rpc'[r] = "idle"

\* Number of writes committed, also while ready() is between advancing
\* write_at to 0 and counting the lap.
Written ==
  IF write_at = 0 /\ \E w \in Writers : wpc[w] = "ready_lap"
    THEN (lap_ + 1) * n_elements
    ELSE Committed

\* The slots whose content the call's predicate matches with its value.
Hits(r) == {i \in Slots : Matches(flocal[r].pred, ring[i], flocal[r].val)}

\* C19: while fewer than n_elements writes have been committed, find()
\* returns not-found or an index below the number of writes committed,
\* whatever the value and the predicate; a find() called on a buffer that
\* has wrapped scans all n_elements slots: it returns the first slot that
\* matches, and not-found only if none does.
C19_FindSkipsUnwrittenSlots ==
  [][\A r \in Readers :
       FindReturns(r) =>
         LET i == ret'[r].val
         IN /\ Written < n_elements => (i = npos \/ (0 <= i /\ i < Written))
            /\ flocal[r].lap0 >= 1 =>
                 /\ i = npos <=> Hits(r) = {}
                 /\ i # npos => (i \in Hits(r) /\ \A j \in Hits(r) : i <= j)]_vars

\* find() with the predicate that matches default content has returned
\* not-found on a buffer of two written and two never-written slots.
C19_Witness ==
  \E r \in Readers :
    /\ rpc[r] = "idle"
    /\ ret[r] = Returned("find", npos)
    /\ flocal[r].pred = "is_default"
    /\ Written = 2
    /\ ring[2] = Whole(0) /\ ring[3] = Whole(0)
    /\ \A w \in Writers : wpc[w] = "idle"


-----------------------------------------------------------------------------
(* Claims checked under SpecAnonLap *)

\* The step is a call of write(data, len) or put(data, len) on the
\* type-erased store with a null source or a length above the stride.
BadWrite ==
  /\ anon_ret'.op \in {"write", "put"}
  /\ anon_ret'.data = "null" \/ anon_ret'.len > anon.stride

\* C21: a write to the type-erased store with a null source or a length
\* above the stride, through write() or through the write cursor's put(),
\* is signalled as an error and leaves the contents, the write position
\* and the lap counter as they were.
C21_BadWriteSignalledNothingChanged ==
  [][BadWrite => /\ anon_ret'.threw
                 /\ anon' = anon
                 /\ anon_lap' = anon_lap]_vars


-----------------------------------------------------------------------------
(* Claims checked under SpecPair *)

\* The step belongs to a peek(), get() or swap() of read cursor r.
ReaderStep(r) == rpc'[r] # rpc[r] \/ ret'[r] # ret[r]

\* C22: a step of peek(), get() or swap() on one read cursor leaves
\* write_at, the lap counter, has_data, the stored elements and every other
\* read cursor's position, lap and error as they were.
C22_ReadCursorsIndependent ==
  [][\A r \in Readers :
       ReaderStep(r) =>
         /\ UNCHANGED <<write_at, lap_, has_data, ring>>
         /\ \A o \in Readers \ {r} :
              /\ read_at'[o] = read_at[o]
              /\ lap'[o] = lap[o]
              /\ errno_'[o] = errno_[o]
              /\ ref'[o] = ref[o]]_vars

\* One cursor has consumed two elements of the second lap while the other,
\* left at the start, has just been told it was lapped.
C22_Witness ==
  /\ AllIdle
  /\ read_at["r1"] = 2 /\ lap["r1"] = 1 /\ errno_["r1"] = "none"
  /\ errno_["r2"] = "was_lapped" /\ lap["r2"] = 0


-----------------------------------------------------------------------------
(* Claims checked under SpecEq *)

\* The byte offset of an index of the typed buffer, npos for npos.
Offset(i) == IF i = npos THEN npos ELSE anon.stride * i

\* C23: given the same ptr/ready/put/peek/get calls, the typed buffer and
\* the type-erased buffer of the same number of rows report the same
\* status on every call and have equal lap counters, and write_at, read_at,
\* oldest() and the returned slot of the type-erased one are stride times
\* those of the typed one.
C23_TypedAndAnonAgree ==
  (wpc["w1"] = "idle" /\ rpc["r1"] \in {"idle", "using"}) =>
    /\ anon.write_at = Offset(write_at)
    /\ anon.has_data = has_data
    /\ anon_lap = lap_
    /\ anon_oldest_unsafe(anon, anon_lap)
         = Offset(oldest_unsafe(has_data, lap_, write_at))
    /\ anon_cur.read_at = Offset(read_at["r1"])
    /\ anon_cur.lap = lap["r1"]
    /\ anon_cur.errno_ = errno_["r1"]
    /\ anon_cur.ref = IF ref["r1"] = <<>> THEN <<>>
                      ELSE <<Offset(ref["r1"][1])>>

\* Rows of three bytes, and both cursors were just told they were lapped
\* twice over, nine writes after the start.
C23_Witness ==
  /\ AllIdle
  /\ anon.stride = 3
  /\ lap_ = 2 /\ anon_lap = 2
  /\ errno_["r1"] = "was_lapped" /\ anon_cur.errno_ = "was_lapped"
  /\ anon_cur.read_at = 3 /\ read_at["r1"] = 1


-----------------------------------------------------------------------------
(* Claims checked under SpecIndex *)

\* C24: operator[](i), through the mutable and through the const overload
\* of each store, returns slot i when i is in range, throws out_of_range
\* when it is not, changes nothing in the store, and every call made
\* comes to an end.
C24_IndexCheckedAndReturns ==
  /\ [](ix.st = "returned" => ix.i < Extent(ix.store) /\ ix.val = ix.i)
  /\ [](ix.st = "threw" => ix.i >= Extent(ix.store))
  /\ [][ix' # ix => UNCHANGED <<typedvars, anonvars>>]_vars
  /\ \A overload \in Overloads :
       (ix.st = "called" /\ ix.overload = overload)
         ~> ix.st \in {"returned", "threw"}


-----------------------------------------------------------------------------
(* Further claims checked under Spec *)

\* C25: when a peek() or get() returns, it returned a slot exactly if the
\* cursor's error is none, and no slot exactly if the error is was_lapped
\* or is_empty; so the error of an earlier call is gone after a call that
\* returned a slot.
C25_ErrorAgreesWithResult ==
  [][\A r \in Readers :
       Returns(r) =>
         /\ ref'[r] # <<>> <=> errno_'[r] = "none"
         /\ ref'[r] = <<>> <=> errno_'[r] \in {"was_lapped", "is_empty"}]_vars

\* In the second lap, a call that followed an is_empty call has returned a
\* slot and left the error none.
C25_Witness ==
  \E r \in Readers :
    /\ rpc[r] = "using"
    /\ seen_empty[r] = -2
    /\ lap[r] = 1
    /\ errno_[r] = "none" /\ ref[r] # <<>>


-----------------------------------------------------------------------------
(* Claims checked under SpecMQ *)

\* C26: whatever the interleaving of push() with pop(), pop_if() and
\* pop_until(), the messages handed out so far followed by the messages
\* still queued are the messages enqueued, in the order they were enqueued
\* (none twice, none dropped), and a pop() that has returned has a message
\* in msg.
C26_FifoExactlyOnce ==
  /\ enq = dlv \o q
  /\ \A i, j \in 1 .. Len(dlv) : dlv[i] = dlv[j] => i = j
  /\ \A c \in Consumers :
       qret[c] = [op |-> "pop", val |-> "void"] =>
         \E i \in 1 .. Len(dlv) : dlv[i] = qmsg[c]

\* Two messages were enqueued in the opposite order of their push() calls
\* and both were handed out, one to a pop() and one to a pop_until().
C26_Witness ==
  /\ dlv = <<2, 1>> /\ q = <<>>
  /\ qmsg["c1"] = 2 /\ qmsg["c2"] = 1
  /\ qret["c1"] = [op |-> "pop", val |-> "void"]
  /\ qret["c2"] = [op |-> "pop_until", val |-> "true"]


-----------------------------------------------------------------------------
(* Claims checked under SpecMQLive *)

\* Consumer c is inside a call of the given operation.
InPop(c, op) == qret[c] = [op |-> op, val |-> "pending"]

\* The step in which a pop_if() of c returns.
PopIfReturns(c) == qpc[c] = "if_cs" /\ qpc'[c] = "idle"

\* C27: under fair scheduling a consumer inside pop() while a message is
\* queued eventually returns from pop(), unless the queue is emptied by
\* someone else; pop_if() waits for nothing but the mutex and returns, with
\* false exactly when it found the queue empty, which it then leaves as it
\* was.
C27_NoLostWakeup ==
  /\ \A c \in Consumers :
       (InPop(c, "pop") /\ q # <<>>) ~> (~InPop(c, "pop") \/ q = <<>>)
  /\ \A c \in Consumers : InPop(c, "pop_if") ~> ~InPop(c, "pop_if")
  /\ [][\A c \in Consumers :
         PopIfReturns(c) =>
           /\ qret'[c].val = "false" <=> q = <<>>
           /\ q = <<>> => q' = q /\ dlv' = dlv]_vars


-----------------------------------------------------------------------------
(* Claims checked under SpecLoop *)

\* The step is a call of start().
StartCalled == ctl'.n = ctl.n + 1 /\ ctl'.last = "start"

\* C28: once the service function has returned r_stop it is not called
\* again, whatever start() and stop() calls follow; and a start() on a
\* thread_loop whose thread is started changes nothing in it.
C28_StoppedLoopStaysStopped ==
  /\ [][svc_stopped => svc_calls' = svc_calls]_vars
  /\ [][(StartCalled /\ loop.joinable) => loop' = loop]_vars


\* The classification of a reader at (ra, lr) against a writer at (wa, lw).
BehindByALap(ra, lr, wa, lw) ==
  (ra < wa /\ lr < lw) \/ (ra = wa /\ lr + 1 < lw)
AheadOutOfStep(ra, lr, wa, lw) == ra > wa /\ lr + 1 # lw
NothingToRead(hd, ra, lr, wa, lw) == ~hd \/ (ra = wa /\ lr = lw)

-----------------------------------------------------------------------------
(* Claims checked under SpecBase *)

\* C30: whenever no call holds the mutex the lap counter equals the number
\* of times write_at has gone back to 0, and no step changes the lap
\* counter other than by adding one.
C30_LapCountsWraps ==
  /\ [](mux = NoThread => lap_ = wraps)
  /\ [][lap_' = lap_ \/ lap_' = lap_ + 1]_vars


\* The number of next() calls completed on the buffer, through ready(),
\* put(), write() or directly.
Nexts == wraps * n_elements + write_at

\* C31: has_data is false exactly while no next() has completed on the
\* buffer, and no step makes it false again.
C31_HasDataIffWritten ==
  /\ [](has_data <=> Nexts > 0)
  /\ [][has_data => has_data']_vars

\* The write position is back at the start after four writes, one of them
\* through the write cursor, and has_data is true.
C31_Witness ==
  /\ AllIdle
  /\ has_data
  /\ write_at = 0 /\ wraps = 1 /\ lap_ = 0
  /\ \E i \in Slots : ring[i] = Whole(0)
  /\ \E i \in Slots : ring[i] # Whole(0)


-----------------------------------------------------------------------------
(* Further claims checked under SpecSwap *)

GivesData(r) ==
  /\ rpc[r] \in {"peek_cs", "get_cs"}
  /\ rpc'[r] = "using"

\* C33: a reader's lap never exceeds the buffer's lap, whatever in-range
\* swap() calls were made; so a call that returns data with the cursor
\* behind the write position had equal laps, and one that returns data with
\* the cursor on the write position was exactly one lap behind.
C33_ReaderLapBounded ==
  /\ [](\A r \in Readers : lap[r] <= lap_)
  /\ [][\A r \in Readers :
          GivesData(r) =>
            /\ read_at[r] < write_at => lap[r] = lap_
            /\ read_at[r] = write_at => lap[r] + 1 = lap_]_vars

\* C33 witness: after swap(0) on a full buffer whose write position wrapped
\* to 0, peek() gave the slot under the write position to a reader one lap
\* behind.
C33_Witness ==
  \E r \in Readers :
    /\ \A w \in Writers : wpc[w] = "idle"
    /\ rpc[r] = "using"
    /\ ret[r].op = "swap" /\ ~ret[r].threw /\ ret[r].arg = write_at
    /\ ref[r] = <<read_at[r]>>
    /\ read_at[r] = write_at
    /\ lap[r] + 1 = lap_


-----------------------------------------------------------------------------
(* Two-phase writes only: the writer thread calls ptr(), possibly again,    *)
(* fills the slot and calls ready(), while a reader thread calls peek() and *)
(* get().  A writer that stops between ptr() and ready() is a behaviour of  *)
(* this specification that takes no further writer step.                    *)

YPtr(w) == issued < MaxPtrWrites /\ CallPtr(w) /\ CallSeen(w)
YPtrAgain(w) == PtrAgain(w) /\ Quiet

NextPtr ==
  \/ \E w \in Writers :
       \/ YPtr(w) \/ WPtrLock(w) \/ WPtrBody(w) \/ YPtrAgain(w)
       \/ WFillLo(w) \/ WFillHi(w)
       \/ WReadyLock(w) \/ WReadyNext(w) \/ WReadyLap(w)
  \/ \E r \in Readers :
       \/ RPeek(r) \/ RGet(r) \/ RLock(r) \/ RPeekBody(r) \/ RGetBody(r)
       \/ RDone(r)

SpecPtr == Init /\ [][NextPtr]_vars

\* A step of a ptr() call of w: the call, taking the lock, the return.
PtrStep(w) ==
  /\ wpc[w] \in {"idle", "ptr_wait", "ptr_cs", "fill_lo"}
  /\ wpc'[w] \in {"ptr_wait", "ptr_cs", "fill_lo"}
  /\ wpc'[w] # wpc[w]

\* w holds a slot that ptr() returned and ready() has not yet been entered.
Pending(w) == wpc[w] \in {"fill_lo", "fill_hi", "ready_wait"}

\* C34: ptr() changes none of write_at, lap, has_data or a reader's state,
\* and the slot it returns is not committed before ready(): the slot is still
\* the one under the write position, a reader that has consumed everything
\* committed gets is_empty, and has_data stays false while no ready() has
\* run.
C34_PtrCommitsNothing ==
  /\ [][\A w \in Writers :
          PtrStep(w) =>
            UNCHANGED <<write_at, lap_, has_data, rvars>>]_vars
  /\ [](\A w \in Writers : Pending(w) => p[w] = write_at)
  /\ [][\A r \in Readers :
          (rpc[r] \in {"peek_cs", "get_cs"} /\ rpc'[r] # rpc[r]
             /\ CaughtUp(r)) =>
            /\ errno_'[r] = "is_empty"
            /\ ref'[r] = <<>>
            /\ read_at'[r] = read_at[r] /\ lap'[r] = lap[r]]_vars
  /\ []((Committed = 0 /\ \A w \in Writers : wpc[w] # "ready_lap")
         => ~has_data)

\* C34 witness: ptr() was called twice and the slot filled, ready() not yet
\* called; the buffer was never written and the reader's get() got is_empty.
C34_Witness ==
  /\ wpc["w1"] = "ready_wait"
  /\ fresh["w1"] = 2
  /\ ring[write_at] = Whole(val["w1"]) /\ val["w1"] # 0
  /\ ~has_data /\ write_at = 0 /\ lap_ = 0
  /\ rpc["r1"] = "idle"
  /\ errno_["r1"] = "is_empty"
  /\ read_at["r1"] = 0


-----------------------------------------------------------------------------
(* One writer thread calling put() and one reader thread calling peek() and *)
(* get(), concurrently; got records what each successful get() handed out.  *)

\* The write sequence number of a payload (0, 1, ...); -1 for the value a
\* slot is constructed with.
NumberOf(v) == (v \div 10) - 1

Larger(a, b) == IF a > b THEN a ELSE b

\* Some write cursor has begun to copy into slot i and has not yet entered
\* ready().
BeingWritten(i) ==
  \E w \in Writers : wpc[w] \in {"fill_hi", "ready_wait"} /\ p[w] = i

\* get() of r returns: if it returns a slot, what the slot holds then.
GotSeen(r) ==
  /\ got' = IF ref'[r] = <<>> THEN got
            ELSE [got EXCEPT
                    ![r] = [n |-> Larger(NumberOf(ring[read_at[r]].lo),
                                         NumberOf(ring[read_at[r]].hi)),
                            at |-> SeqOf(lap[r], read_at[r]),
                            raced |-> @.raced \/ BeingWritten(read_at[r])]]
  /\ UNCHANGED <<obsvars, opvars, anonvars, ix, mqvars, tlvars, wraps>>

ZPut(w) == issued < MaxOrderWrites /\ CallPut(w) /\ CallSeen(w)
ZGetBody(r) == GetBody(r) /\ GotSeen(r)

NextOrder ==
  \/ \E w \in Writers :
       \/ ZPut(w) \/ WPutWas(w) \/ WPtrLock(w) \/ WPtrBody(w)
       \/ WFillLo(w) \/ WFillHi(w)
       \/ WReadyLock(w) \/ WReadyNext(w) \/ WReadyLap(w)
  \/ \E r \in Readers :
       \/ RPeek(r) \/ RGet(r) \/ RLock(r) \/ XPeekBody(r) \/ ZGetBody(r)
       \/ RDone(r)

SpecOrder == Init /\ [][NextOrder]_vars

\* A step in which get() of r returns a slot.
GetGives(r) == rpc[r] = "get_cs" /\ rpc'[r] = "using"

\* C35: with one writer and no swap(), each successful get() of a reader
\* returns an element written later than the one its previous successful
\* get() returned.
C35_DeliveredInWriteOrder ==
  [][\A r \in Readers :
       GetGives(r) =>
         /\ NumberOf(ring[read_at[r]].lo) > got[r].n
         /\ NumberOf(ring[read_at[r]].hi) > got[r].n]_vars


\* Slot i has been committed by a ready() at least once.
EverCommitted(i) == lap_ > 0 \/ (has_data /\ i < write_at)

\* A step in which the body of peek() or get() of r runs and returns.
Polls(r) == rpc[r] \in {"peek_cs", "get_cs"} /\ rpc'[r] # rpc[r]

\* C36: wherever swap() has put the cursor, peek() and get() return only
\* slots that were committed at least once; while the buffer is in its first
\* lap a cursor at or beyond write_at gets is_empty or was_lapped and no
\* slot.
C36_OnlyCommittedSlots ==
  [][\A r \in Readers :
       Polls(r) =>
         /\ \A i \in Slots : ref'[r] = <<i>> => EverCommitted(i)
         /\ (lap_ = 0 /\ read_at[r] >= write_at) =>
               /\ ref'[r] = <<>>
               /\ errno_'[r] \in {"is_empty", "was_lapped"}]_vars

\* C36 witness: in the first lap swap(3) put the cursor beyond write_at; the
\* next poll reported was_lapped and sent it back to slot 0.
C36_Witness ==
  \E r \in Readers :
    /\ lap_ = 0 /\ has_data /\ write_at < 3
    /\ rpc[r] = "idle"
    /\ ret[r].op = "swap" /\ ~ret[r].threw /\ ret[r].arg = 3
    /\ errno_[r] = "was_lapped"
    /\ read_at[r] = 0 /\ lap[r] = 0

====
